---- MODULE Spec2Model ----
(***************************************************************************)
(* HostedStorageManager (app/server/lib/HostedStorageManager.ts): the      *)
(* storage manager that keeps documents synchronised between the local     *)
(* file system and the external store.  The manager's methods are          *)
(* translated from the source, one action per stretch of code between two  *)
(* awaits.  KeyedOps, ChecksummedExternalStorage and mapGetOrSet are       *)
(* imported by the source but are not part of it; they are modelled from   *)
(* their documented contracts.                                             *)
(***************************************************************************)
EXTENDS Integers, FiniteSets, Sequences, TLC

(***************************************************************************)
(* Bounds and input sets.                                                  *)
(***************************************************************************)
\* delayBeforeOperationMs (secondsBeforePush * 1000), counted in clock ticks.
DelayTicks == 1
\* The largest number of consecutive failed attempts of one upload.
MaxFailures == 1
\* Distinct document contents: 1..MaxContent (0 stands for "no such file").
MaxContent == 2

\* Document ids the callers operate on.
Docs == {"doc"}
\* Other keys of the external store, usable as the source of a replace.
SourceDocs == {"src"}
Keys == Docs \cup SourceDocs
\* Composite ids: a fork of "doc" that belongs to user "u1", and the id
\* that addresses version "v1" of "doc".
ForkDocs == {"doc~fk~u1"}
SnapshotDocs == {"doc~v=v1"}
\* A fork of no document: its trunk is NEW_DOCUMENT_CODE.
NewForkDocs == {"new~fk~u1"}
\* The id that addresses version "v1" of the fork.
ForkSnapshotDocs == {"doc~fk~u1~v=v1"}
\* An id with a character outside the class of docIdRegex.
InvalidDocs == {"doc.x"}
\* Every id the manager may be handed, and every path under the docs root.
DocIds ==
  Docs \cup ForkDocs \cup SnapshotDocs \cup InvalidDocs \cup NewForkDocs
    \cup ForkSnapshotDocs
Paths == DocIds \cup SourceDocs
\* The versions of the store's objects that have a known snapshotId, as
\* keys of their own: snapshots are native object versions.
SnapshotIds == {"v1"}
VersionKeys == {"doc@v1"}
\* The users a docSession may carry ("" when it carries none).
Users == {"u1", "u2"}
\* Concurrent tasks calling into the manager.
Callers == {"c1", "c2"}
\* Invocations of _pushToS3 that can be in flight at once.
Invocations == {"i1", "i2"}

NoFile == 0
Contents == 1..MaxContent

\* Pages of the largest source database, in units of
\* PAGES_TO_BACKUP_PER_STEP; restarts and busy errors one backup may meet.
MaxPages == 3
MaxRestarts == 2
MaxBusy == 2

\* app/server/lib/ExternalStorage: DELETED_TOKEN, and a directory entry
\* that holds no docMD5.
DELETED_TOKEN == "DELETED"
NullMD5 == "null"

VARIABLES
  disableS3,      \* _disableS3
  sqlite,         \* a call of backupSqliteDatabase: its locals, the engine's backup, the file at dest
  closed,         \* _closed
  localFiles,     \* _localFiles: doc -> "none" | "true" | "false" | the caller whose promise is pending
  prepareFiles,   \* _prepareFiles
  uploads,        \* _uploads: the KeyedOps state, per key
  pushes,         \* in-flight invocations of _pushToS3
  metaScheduled,  \* keys handed to _metadataManager.scheduleUpdate
  localFile,      \* <docsRoot>/<docId>.grist, by content
  hashFile,       \* <docsRoot>/<docId>.grist-hash
  backupFile,     \* <docsRoot>/<docId>.grist-backup
  replacingFile,  \* <docsRoot>/<docId>.grist-replacing
  remote,         \* external store: key -> content of the current version
  docMD5,         \* worker directory: docId -> docMD5
  op,             \* caller -> the method it is executing
  pc,             \* caller -> its position in that method
  cdoc,           \* caller -> the docName argument
  result,         \* caller -> what the method returned or threw
  awaited,        \* caller -> the promise it awaits: its value once settled, else its owner
  locals,         \* caller -> local variables of the method
  unpushed,       \* history: doc -> some accepted markAsChanged is not yet covered by a push
  marked,         \* history: the docs for which markAsChanged was accepted
  removed,        \* history: the docs deleteDoc removed something of since their last markAsChanged
  need,           \* history: caller -> its flushDoc was invoked with uncovered changes
  credit,         \* history: invocation -> the flushDoc calls whose changes it covers
  overlap,        \* history: caller -> its prepareLocalDoc was invoked during another one
  prior           \* history: caller -> the local file its call found (prepareLocalDoc) or moved aside (replace)

fsVars == <<localFile, hashFile, backupFile, replacingFile>>
extVars == <<remote, docMD5>>
callerVars == <<op, pc, cdoc, result, awaited, locals>>
histVars == <<unpushed, marked, removed, need, credit, overlap, prior>>

vars == <<disableS3, sqlite, closed, localFiles, prepareFiles, uploads, pushes,
          metaScheduled, fsVars, extVars, callerVars, histVars>>

(***************************************************************************)
(* Pure helpers.                                                           *)
(***************************************************************************)
\* checksumFile(path, 'md5'): the digest of a file, by content.
checksumFile(c) == "md5:" \o ToString(c)

Min(a, b) == IF a < b THEN a ELSE b
Max(a, b) == IF a > b THEN a ELSE b

(***************************************************************************)
(* KeyedOps: per-key debounced, coalescing, retrying single-flight queue.  *)
(* u is the state of all keys; every operator returns the new state.       *)
(*   state   : "idle" | "scheduled" | "running" | "retrying"               *)
(*   timer   : ticks before the scheduled run may start                    *)
(*   changed : addOperation arrived while the run was in progress          *)
(*   failures: consecutive failed runs                                     *)
(***************************************************************************)
IdleOp == [state |-> "idle", timer |-> 0, changed |-> FALSE, failures |-> 0]

\* The options the manager constructs its KeyedOps with.
UploadsRetryOff == FALSE
UploadsRetry == TRUE

hasPendingOperation(u, key) == u[key].state # "idle"

hasPendingOperations(u) == \E key \in DOMAIN u : hasPendingOperation(u, key)

\* addOperation that asks for a follow-up run whenever a key is pending.
addOperationFollowUp(u, key) ==
  CASE u[key].state = "idle" ->
         [u EXCEPT ![key].state = "scheduled", ![key].timer = DelayTicks]
    [] u[key].state = "scheduled" ->
         [u EXCEPT ![key].changed = TRUE, ![key].timer = DelayTicks]
    [] u[key].state = "retrying" ->
         [u EXCEPT ![key].timer = Max(u[key].timer, DelayTicks)]
    [] u[key].state = "running" ->
         [u EXCEPT ![key].changed = TRUE, ![key].timer = DelayTicks]

addOperation(u, key) ==
  CASE u[key].state = "idle" ->
         [u EXCEPT ![key].state = "scheduled", ![key].timer = DelayTicks]
    [] u[key].state = "scheduled" ->
         [u EXCEPT ![key].timer = DelayTicks]
    [] u[key].state = "retrying" ->
         [u EXCEPT ![key].timer = Max(u[key].timer, DelayTicks)]
    [] u[key].state = "running" ->
         [u EXCEPT ![key].changed = TRUE, ![key].timer = DelayTicks]

expediteOperation(u, key) ==
  IF u[key].state \in {"scheduled", "retrying"}
  THEN [u EXCEPT ![key].timer = 0]
  ELSE u

expediteOperations(u) ==
  [key \in DOMAIN u |-> expediteOperation(u, key)[key]]

\* The first backoff is one tick; it doubles with every further failure.
RetryDelay(failures) == IF failures = 0 THEN 1 ELSE 2 * failures

\* A start that does not record the run.
startOperationUnrecorded(u, key) == u

\* The timer of a scheduled key expired: its run starts.
startOperation(u, key) ==
  [u EXCEPT ![key].state = "running", ![key].changed = FALSE]

\* The run of key ended.
finishOperation(u, key, ok) ==
  IF ok
  THEN IF u[key].changed
       THEN [u EXCEPT ![key].state = "scheduled", ![key].changed = FALSE,
                      ![key].failures = 0]
       ELSE [u EXCEPT ![key] = IdleOp]
  ELSE IF UploadsRetry
       THEN [u EXCEPT ![key].state = "retrying", ![key].changed = FALSE,
                      ![key].timer = Max(u[key].timer, RetryDelay(u[key].failures)),
                      ![key].failures = Min(u[key].failures + 1, MaxFailures)]
       ELSE IF u[key].changed
            THEN [u EXCEPT ![key].state = "scheduled", ![key].changed = FALSE]
            ELSE [u EXCEPT ![key] = IdleOp]

(***************************************************************************)
(* Document ids: docIdRegex, and app/common/gristUrls parseUrlId.          *)
(***************************************************************************)
\* \w of a regular expression, and the class [-=_\w~%] of docIdRegex.
WordChars ==
  {"a", "b", "c", "d", "e", "f", "g", "h", "i", "j", "k", "l", "m",
   "n", "o", "p", "q", "r", "s", "t", "u", "v", "w", "x", "y", "z",
   "A", "B", "C", "D", "E", "F", "G", "H", "I", "J", "K", "L", "M",
   "N", "O", "P", "Q", "R", "S", "T", "U", "V", "W", "X", "Y", "Z",
   "0", "1", "2", "3", "4", "5", "6", "7", "8", "9", "_"}
DocIdClass == {"-", "=", "_", "~", "%"} \cup WordChars

\* The characters of the ids, one by one.
DocIdChars ==
  [x \in Paths |->
     CASE x = "doc" -> <<"d", "o", "c">>
       [] x = "src" -> <<"s", "r", "c">>
       [] x = "doc~fk~u1" -> <<"d", "o", "c", "~", "f", "k", "~", "u", "1">>
       [] x = "doc~v=v1" -> <<"d", "o", "c", "~", "v", "=", "v", "1">>
       [] x = "doc.x" -> <<"d", "o", "c", ".", "x">>
       [] x = "new~fk~u1" -> <<"n", "e", "w", "~", "f", "k", "~", "u", "1">>
       [] x = "doc~fk~u1~v=v1" ->
            <<"d", "o", "c", "~", "f", "k", "~", "u", "1", "~", "v", "=", "v", "1">>]

\* docIdRegex.test(docId): /^[-=_\w~%]+$/
docIdRegexTest(docId) ==
  /\ Len(DocIdChars[docId]) > 0
  /\ \A i \in 1..Len(DocIdChars[docId]) : DocIdChars[docId][i] \in DocIdClass

\* checkValidDocId(docId) throws.
checkValidDocIdThrows(docId) == ~docIdRegexTest(docId)

UrlIdParts(trunkId, forkId, forkUserId, snapshotId) ==
  [trunkId |-> trunkId, forkId |-> forkId, forkUserId |-> forkUserId,
   snapshotId |-> snapshotId]

\* The composite ids and their fields.
UrlIds ==
  [x \in ForkDocs \cup SnapshotDocs \cup NewForkDocs \cup ForkSnapshotDocs |->
     CASE x = "doc~fk~u1" -> UrlIdParts("doc", "fk", "u1", "")
       [] x = "doc~v=v1" -> UrlIdParts("doc", "", "", "v1")
       [] x = "new~fk~u1" -> UrlIdParts("new", "fk", "u1", "")
       [] x = "doc~fk~u1~v=v1" -> UrlIdParts("doc", "fk", "u1", "v1")]

parseUrlId(docName) ==
  IF docName \in DOMAIN UrlIds
  THEN UrlIds[docName]
  ELSE UrlIdParts(docName, "", "", "")

buildUrlId(parts) ==
  IF \E x \in DOMAIN UrlIds : UrlIds[x] = parts
  THEN CHOOSE x \in DOMAIN UrlIds : UrlIds[x] = parts
  ELSE parts.trunkId

\* buildUrlId({...parseUrlId(docName), snapshotId: undefined})
WithoutSnapshot(docName) ==
  buildUrlId([parseUrlId(docName) EXCEPT !.snapshotId = ""])

\* The object version a download of key reads: the current one, or the one
\* snapshotId names.
ExtVersionKey(key, snapshotId) ==
  IF snapshotId = "" THEN key ELSE key \o "@" \o snapshotId

(***************************************************************************)
(* ChecksummedExternalStorage, wired in the constructor with the worker    *)
(* directory as sharedHash and the -hash file as localHash.                *)
(***************************************************************************)
\* A store wired without the -hash file: upload leaves it alone.
ExtUploadedNoLocalHash(key, content) ==
  /\ remote' = [remote EXCEPT ![key] = content]
  /\ docMD5' = [docMD5 EXCEPT ![key] = checksumFile(content)]
  /\ hashFile' = hashFile

\* upload(key, path) succeeded: the content is the current remote version,
\* and both hashes are its digest.
ExtUploaded(key, content) ==
  /\ remote' = [remote EXCEPT ![key] = content]
  /\ docMD5' = [docMD5 EXCEPT ![key] = checksumFile(content)]
  /\ hashFile' = [hashFile EXCEPT ![key] = checksumFile(content)]

\* upload(key, path) failed: no hash is written; the PUT itself may or may
\* not have reached the store.
ExtUploadFailed(key, content) ==
  /\ \E put \in BOOLEAN :
       remote' = IF put /\ content # NoFile
                 THEN [remote EXCEPT ![key] = content]
                 ELSE remote
  /\ UNCHANGED <<docMD5, hashFile>>

(***************************************************************************)
(* The manager: inspection, and the push worker run by KeyedOps.           *)
(***************************************************************************)
\* isSaved that takes a document awaiting a retry for saved.
isSavedUnlessRetrying(docName) == uploads[docName].state \in {"idle", "retrying"}

\* isSaved(docName)
isSaved(docName) == ~hasPendingOperation(uploads, docName)

\* needsUpdate()
needsUpdate == hasPendingOperations(uploads)

IdlePush == [pc |-> "idle", doc |-> "-", ok |-> FALSE, pruned |-> FALSE, sched |-> FALSE]

InFlight(docId) == {i \in Invocations : pushes[i].pc # "idle" /\ pushes[i].doc = docId}

FreeInvocation == CHOOSE i \in Invocations : pushes[i].pc = "idle"

\* Callers inside flushDoc(docName), waiting for the run of docName to end.
FlushWaiters(docName) ==
  {c \in Callers : pc[c] = "flush_wait" /\ cdoc[c] = docName}

InFlush(c) == pc[c] \in {"flush_wait", "flush_wake"}

\* The values a presence promise settles with.
Settled == {"true", "false", "rejected"}

\* Caller c has a continuation in the job queue: the promise it awaits has
\* settled.  Jobs run before any timer, I/O completion or new call.
Microtask(c) ==
  \/ pc[c] \in {"flush_wake", "flush_done", "repl_fetched"}
  \/ pc[c] \in {"close_await", "ensure_await", "cs_all"} /\ awaited[c] \in Settled
  \/ pc[c] = "cs_wait" /\ ~hasPendingOperations(uploads)

MicrotasksDrained == \A c \in Callers : ~Microtask(c)

\* The run of an invocation ended: KeyedOps records it (when it started the
\* run) and the promises of expediteOperationAndWait complete.
Settle(i, ok) ==
  LET d == pushes[i].doc IN
  /\ pushes' = [pushes EXCEPT ![i] = IdlePush]
  /\ uploads' = IF pushes[i].sched THEN finishOperation(uploads, d, ok) ELSE uploads
  /\ pc' = [c \in Callers |-> IF c \in FlushWaiters(d) THEN "flush_wake" ELSE pc[c]]
  /\ unpushed' = IF ok /\ "all" \in credit[i]
                 THEN [unpushed EXCEPT ![d] = FALSE] ELSE unpushed
  /\ marked' = marked
  /\ removed' = removed
  /\ need' = [c \in Callers |-> IF ok /\ c \in credit[i] THEN FALSE ELSE need[c]]
  /\ credit' = [credit EXCEPT ![i] = {}]

\* _pushToS3(docId), up to its first await.  A push of a document that is
\* still being prepared throws at once; otherwise _prepareBackup is called.
_pushToS3(i, docId, sched) ==
  IF docId \in prepareFiles
  THEN /\ pushes' = pushes
       /\ credit' = credit
  ELSE /\ pushes' = [pushes EXCEPT ![i] = [pc |-> "backup", doc |-> docId, ok |-> FALSE,
                                           pruned |-> FALSE, sched |-> sched]]
       /\ credit' = [credit EXCEPT ![i] =
                       {"all"} \cup {c \in Callers :
                                       InFlush(c) /\ cdoc[c] = docId /\ need[c]}]

\* A push that does not look at _prepareFiles.
StartPushWhilePreparing(d) ==
  /\ MicrotasksDrained
  /\ uploads[d].state \in {"scheduled", "retrying"}
  /\ uploads[d].timer = 0
  /\ \E i \in Invocations : pushes[i].pc = "idle"
  /\ pushes' = [pushes EXCEPT ![FreeInvocation] =
                  [pc |-> "backup", doc |-> d, ok |-> FALSE,
                   pruned |-> FALSE, sched |-> TRUE]]
  /\ credit' = [credit EXCEPT ![FreeInvocation] =
                  {"all"} \cup {c \in Callers : InFlush(c) /\ cdoc[c] = d /\ need[c]}]
  /\ uploads' = startOperation(uploads, d)
  /\ pc' = pc
  /\ UNCHANGED <<disableS3, sqlite, closed, localFiles, prepareFiles, metaScheduled, fsVars,
                 extVars, op, cdoc, result, awaited, locals, unpushed, marked, removed, need, overlap, prior>>

\* KeyedOps runs the operation of a key whose timer expired.
StartPush(d) ==
  /\ MicrotasksDrained
  /\ uploads[d].state \in {"scheduled", "retrying"}
  /\ uploads[d].timer = 0
  /\ \E i \in Invocations : pushes[i].pc = "idle"
  /\ _pushToS3(FreeInvocation, d, TRUE)
  /\ IF d \in prepareFiles
     THEN /\ uploads' = finishOperation(startOperation(uploads, d), d, FALSE)
          /\ pc' = [c \in Callers |-> IF c \in FlushWaiters(d) THEN "flush_wake" ELSE pc[c]]
     ELSE /\ uploads' = startOperation(uploads, d)
          /\ pc' = pc
  /\ UNCHANGED <<disableS3, sqlite, closed, localFiles, prepareFiles, metaScheduled, fsVars,
                 extVars, op, cdoc, result, awaited, locals, unpushed, marked, removed, need, overlap, prior>>

\* _prepareBackup / backupSqliteDatabase: the sidecar becomes a consistent
\* copy of the live file, or the backup fails and no sidecar remains.
PushBackup(i) ==
  LET d == pushes[i].doc IN
  /\ MicrotasksDrained
  /\ pushes[i].pc = "backup"
  /\ \/ /\ localFile[d] # NoFile
        /\ backupFile' = [backupFile EXCEPT ![d] = localFile[d]]
        /\ pushes' = [pushes EXCEPT ![i].pc = "upload"]
        /\ UNCHANGED <<uploads, pc, unpushed, marked, removed, need, credit>>
     \/ /\ backupFile' = [backupFile EXCEPT ![d] = NoFile]
        /\ Settle(i, FALSE)
  /\ UNCHANGED <<disableS3, sqlite, closed, localFiles, prepareFiles, metaScheduled,
                 localFile, hashFile, replacingFile, extVars,
                 op, cdoc, result, awaited, locals, overlap, prior>>

\* A push that tells the pruner whatever the upload did.
PushUploadAlwaysPrunes(i) ==
  LET d == pushes[i].doc IN
  /\ MicrotasksDrained
  /\ pushes[i].pc = "upload"
  /\ \/ /\ backupFile[d] # NoFile
        /\ ExtUploaded(d, backupFile[d])
        /\ pushes' = [pushes EXCEPT ![i].pc = "cleanup", ![i].ok = TRUE,
                                     ![i].pruned = TRUE]
     \/ /\ ExtUploadFailed(d, backupFile[d])
        /\ pushes' = [pushes EXCEPT ![i].pc = "cleanup", ![i].ok = FALSE,
                                     ![i].pruned = TRUE]
  /\ UNCHANGED <<disableS3, sqlite, closed, localFiles, prepareFiles, uploads,
                 metaScheduled, localFile, backupFile, replacingFile,
                 callerVars, histVars>>

\* this._ext.upload(docId, tmpPath), then this._pruner.requestPrune(docId)
\* (pruned: the pruner was told).
PushUpload(i) ==
  LET d == pushes[i].doc IN
  /\ MicrotasksDrained
  /\ pushes[i].pc = "upload"
  /\ \/ /\ backupFile[d] # NoFile
        /\ ExtUploaded(d, backupFile[d])
        /\ pushes' = [pushes EXCEPT ![i].pc = "cleanup", ![i].ok = TRUE,
                                     ![i].pruned = TRUE]
     \/ /\ ExtUploadFailed(d, backupFile[d])
        /\ pushes' = [pushes EXCEPT ![i].pc = "cleanup", ![i].ok = FALSE]
  /\ UNCHANGED <<disableS3, sqlite, closed, localFiles, prepareFiles, uploads,
                 metaScheduled, localFile, backupFile, replacingFile,
                 callerVars, histVars>>

\* finally: fse.remove(tmpPath); the invocation then settles.
PushCleanup(i) ==
  LET d == pushes[i].doc IN
  /\ MicrotasksDrained
  /\ pushes[i].pc = "cleanup"
  /\ backupFile' = [backupFile EXCEPT ![d] = NoFile]
  /\ Settle(i, pushes[i].ok)
  /\ UNCHANGED <<disableS3, sqlite, closed, localFiles, prepareFiles, metaScheduled,
                 localFile, hashFile, replacingFile, extVars,
                 op, cdoc, result, awaited, locals, overlap, prior>>

(***************************************************************************)
(* markAsChanged, markAsEdited, flushDoc, prepareToCloseStorage.           *)
(***************************************************************************)
markAsChangedThrows(docName) ==
  /\ parseUrlId(docName).snapshotId = ""
  /\ ~disableS3
  /\ closed

\* markAsChanged that does not look at _closed.
markAsChangedAcceptedClosed(docName) ==
  /\ parseUrlId(docName).snapshotId = ""
  /\ ~disableS3

\* Whether markAsChanged(docName) reaches this._uploads.addOperation.
markAsChangedAccepted(docName) ==
  /\ parseUrlId(docName).snapshotId = ""
  /\ ~disableS3
  /\ ~closed

\* markAsChanged that returns once it has refreshed the presence cache.
markAsChangedEarlyReturn(docName) ==
  /\ localFiles' = IF parseUrlId(docName).snapshotId = "" /\ localFiles[docName] # "none"
                   THEN [localFiles EXCEPT ![docName] = "true"]
                   ELSE localFiles
  /\ uploads' = IF markAsChangedAccepted(docName) /\ localFiles[docName] = "none"
                THEN addOperation(uploads, docName)
                ELSE uploads
  /\ unpushed' = IF markAsChangedAccepted(docName)
                 THEN [unpushed EXCEPT ![docName] = TRUE]
                 ELSE unpushed
  /\ marked' = IF markAsChangedAccepted(docName)
               THEN marked \cup {docName}
               ELSE marked
  /\ removed' = IF markAsChangedAccepted(docName)
                THEN removed \ {docName}
                ELSE removed
  /\ credit' = IF markAsChangedAccepted(docName)
               THEN [i \in Invocations |->
                       IF i \in InFlight(docName) THEN credit[i] \ {"all"} ELSE credit[i]]
               ELSE credit

\* markAsChanged that records the document as present whether or not it
\* has an entry.
markAsChangedCreatesEntry(docName) ==
  /\ localFiles' = IF parseUrlId(docName).snapshotId = ""
                   THEN [localFiles EXCEPT ![docName] = "true"]
                   ELSE localFiles
  /\ uploads' = IF markAsChangedAccepted(docName)
                THEN addOperation(uploads, docName)
                ELSE uploads
  /\ unpushed' = IF markAsChangedAccepted(docName)
                 THEN [unpushed EXCEPT ![docName] = TRUE]
                 ELSE unpushed
  /\ marked' = IF markAsChangedAccepted(docName)
               THEN marked \cup {docName}
               ELSE marked
  /\ removed' = IF markAsChangedAccepted(docName)
                THEN removed \ {docName}
                ELSE removed
  /\ credit' = IF markAsChangedAccepted(docName)
               THEN [i \in Invocations |->
                       IF i \in InFlight(docName) THEN credit[i] \ {"all"} ELSE credit[i]]
               ELSE credit

\* markAsChanged(docName): synchronous.
markAsChanged(docName) ==
  /\ localFiles' = IF parseUrlId(docName).snapshotId = "" /\ localFiles[docName] # "none"
                   THEN [localFiles EXCEPT ![docName] = "true"]
                   ELSE localFiles
  /\ uploads' = IF markAsChangedAccepted(docName)
                THEN addOperation(uploads, docName)
                ELSE uploads
  /\ unpushed' = IF markAsChangedAccepted(docName)
                 THEN [unpushed EXCEPT ![docName] = TRUE]
                 ELSE unpushed
  /\ marked' = IF markAsChangedAccepted(docName)
               THEN marked \cup {docName}
               ELSE marked
  /\ removed' = IF markAsChangedAccepted(docName)
                THEN removed \ {docName}
                ELSE removed
  /\ credit' = IF markAsChangedAccepted(docName)
               THEN [i \in Invocations |->
                       IF i \in InFlight(docName) THEN credit[i] \ {"all"} ELSE credit[i]]
               ELSE credit

\* markAsEdited that schedules the update whatever the id.
markAsEditedAnyId(docName) ==
  metaScheduled' = metaScheduled \cup {docName}

\* markAsEdited(docName): synchronous.  The manager is constructed with
\* pushDocUpdateTimes, so it has a metadata manager.
markAsEdited(docName) ==
  metaScheduled' = IF parseUrlId(docName).snapshotId = ""
                   THEN metaScheduled \cup {docName}
                   ELSE metaScheduled

\* flushDoc with an if in place of the while: one wait is enough.
FlushLoopOnce(c, docName) ==
  IF isSaved(docName) \/ pc[c] = "flush_wake"
  THEN /\ pc' = [pc EXCEPT ![c] = "flush_done"]
       /\ uploads' = uploads
  ELSE /\ pc' = [pc EXCEPT ![c] = "flush_wait"]
       /\ uploads' = expediteOperation(uploads, docName)

\* The while loop of flushDoc, from its test to the next await.
FlushLoop(c, docName) ==
  IF isSaved(docName)
  THEN /\ pc' = [pc EXCEPT ![c] = "flush_done"]
       /\ uploads' = uploads
  ELSE /\ pc' = [pc EXCEPT ![c] = "flush_wait"]
       /\ uploads' = expediteOperation(uploads, docName)

\* flushDoc(docName) is invoked by caller c.
flushDoc(c, docName) ==
  /\ FlushLoop(c, docName)
  /\ need' = [need EXCEPT ![c] = unpushed[docName]]
  /\ credit' = [i \in Invocations |->
                  IF i \in InFlight(docName) /\ "all" \in credit[i] /\ unpushed[docName]
                  THEN credit[i] \cup {c} ELSE credit[i]]

\* The engine or anyone else reports a change of d.
MarkAsChanged(d) ==
  /\ MicrotasksDrained
  /\ markAsChanged(d)
  /\ UNCHANGED <<disableS3, sqlite, closed, prepareFiles, pushes, metaScheduled, fsVars,
                 extVars, callerVars, need, overlap, prior>>

\* The engine writes the document it has open: the file gets its next
\* content (a missing file is created).
EngineEdit(d) ==
  /\ MicrotasksDrained
  /\ localFiles[d] \in {"true", "false"}
  /\ d \notin prepareFiles
  /\ \E content \in Contents :
       /\ content = localFile[d] + 1
       /\ localFile' = [localFile EXCEPT ![d] = content]
  /\ UNCHANGED <<disableS3, sqlite, closed, localFiles, prepareFiles, uploads, pushes,
                 metaScheduled, hashFile, backupFile, replacingFile, extVars,
                 callerVars, histVars>>

\* Time passes: every running timer loses a tick.
Tick ==
  /\ MicrotasksDrained
  /\ \E d \in DOMAIN uploads : uploads[d].timer > 0
  /\ uploads' = [d \in DOMAIN uploads |->
                   IF uploads[d].timer > 0
                   THEN [uploads[d] EXCEPT !.timer = @ - 1]
                   ELSE uploads[d]]
  /\ UNCHANGED <<disableS3, sqlite, closed, localFiles, prepareFiles, pushes, metaScheduled,
                 fsVars, extVars, callerVars, histVars>>

\* prepareToCloseStorage(): the pruner is closed (its state is its own)
\* and every pending upload is expedited.
PrepareToCloseStorage ==
  /\ MicrotasksDrained
  /\ uploads' = expediteOperations(uploads)
  /\ uploads' # uploads
  /\ UNCHANGED <<disableS3, sqlite, closed, localFiles, prepareFiles, pushes,
                 metaScheduled, fsVars, extVars, callerVars, histVars>>

(***************************************************************************)
(* Calls into the manager.  A caller is idle, or inside one method; when   *)
(* the method has settled the caller holds its result until it goes on.    *)
(***************************************************************************)
NoLocals ==
  [md5 |-> NullMD5, src |-> "", snapshotId |-> "", userId |-> "", stage |-> 0,
   fork |-> TRUE, accepted |-> FALSE, fetched |-> FALSE, sawRemote |-> FALSE,
   copy |-> NoFile, status |-> "", err |-> ""]

\* The method of caller c settles with result r.
Return(c, r) ==
  /\ pc' = [pc EXCEPT ![c] = "returned"]
  /\ result' = [result EXCEPT ![c] = r]

\* The caller has consumed the result.
CallerReset(c) ==
  /\ MicrotasksDrained
  /\ pc[c] = "returned"
  /\ op' = [op EXCEPT ![c] = "none"]
  /\ pc' = [pc EXCEPT ![c] = "idle"]
  /\ result' = [result EXCEPT ![c] = "none"]
  /\ awaited' = [awaited EXCEPT ![c] = "none"]
  /\ locals' = [locals EXCEPT ![c] = NoLocals]
  /\ need' = [need EXCEPT ![c] = FALSE]
  /\ overlap' = [overlap EXCEPT ![c] = FALSE]
  /\ prior' = [prior EXCEPT ![c] = NoFile]
  /\ UNCHANGED <<disableS3, sqlite, closed, localFiles, prepareFiles, uploads, pushes,
                 metaScheduled, fsVars, extVars, cdoc, unpushed, marked, removed, credit>>

\* Caller c invokes flushDoc(d).
CallFlushDoc(c, d) ==
  /\ MicrotasksDrained
  /\ pc[c] = "idle"
  /\ op' = [op EXCEPT ![c] = "flushDoc"]
  /\ cdoc' = [cdoc EXCEPT ![c] = d]
  /\ flushDoc(c, d)
  /\ UNCHANGED <<disableS3, sqlite, closed, localFiles, prepareFiles, pushes, metaScheduled,
                 fsVars, extVars, result, awaited, locals, unpushed, marked, removed, overlap, prior>>

\* The awaited run ended: flushDoc tests isSaved again.
FlushWake(c) ==
  /\ pc[c] = "flush_wake"
  /\ FlushLoop(c, cdoc[c])
  /\ UNCHANGED <<disableS3, sqlite, closed, localFiles, prepareFiles, pushes, metaScheduled,
                 fsVars, extVars, op, cdoc, result, awaited, locals, histVars>>

\* flushDoc(d) has resolved and its caller goes on.
FlushDocReturn(c) ==
  /\ op[c] = "flushDoc"
  /\ pc[c] = "flush_done"
  /\ Return(c, "ok")
  /\ UNCHANGED <<disableS3, sqlite, closed, localFiles, prepareFiles, uploads, pushes,
                 metaScheduled, fsVars, extVars, op, cdoc, awaited, locals, histVars>>

\* closeDocument that only waits for uploads when the document was open.
closeDocumentNoFlush(c, docName) ==
  IF localFiles[docName] # "none"
  THEN /\ pc' = [pc EXCEPT ![c] = "close_await"]
       /\ awaited' = [awaited EXCEPT ![c] = localFiles[docName]]
       /\ UNCHANGED <<localFiles, uploads, need, credit>>
  ELSE /\ pc' = [pc EXCEPT ![c] = "flush_done"]
       /\ UNCHANGED <<localFiles, uploads, awaited, need, credit>>

\* closeDocument(docName), up to its first await.
closeDocument(c, docName) ==
  IF localFiles[docName] # "none"
  THEN /\ pc' = [pc EXCEPT ![c] = "close_await"]
       /\ awaited' = [awaited EXCEPT ![c] = localFiles[docName]]
       /\ UNCHANGED <<localFiles, uploads, need, credit>>
  ELSE /\ localFiles' = localFiles
       /\ flushDoc(c, docName)
       /\ awaited' = awaited

\* Caller c invokes closeDocument(d).
CallCloseDocument(c, d) ==
  /\ MicrotasksDrained
  /\ pc[c] = "idle"
  /\ op' = [op EXCEPT ![c] = "closeDocument"]
  /\ cdoc' = [cdoc EXCEPT ![c] = d]
  /\ closeDocument(c, d)
  /\ UNCHANGED <<disableS3, sqlite, closed, prepareFiles, pushes, metaScheduled, fsVars,
                 extVars, result, locals, unpushed, marked, removed, overlap, prior>>

\* closeDocument: the presence promise has settled; the cache entry is
\* dropped and flushDoc is called.  A rejected promise makes the call throw.
CloseAwaitDone(c) ==
  /\ pc[c] = "close_await"
  /\ awaited[c] \in Settled
  /\ IF awaited[c] = "rejected"
     THEN /\ Return(c, "error")
          /\ UNCHANGED <<localFiles, uploads, awaited, need, credit>>
     ELSE /\ localFiles' = [localFiles EXCEPT ![cdoc[c]] = "none"]
          /\ flushDoc(c, cdoc[c])
          /\ awaited' = [awaited EXCEPT ![c] = "none"]
          /\ result' = result
  /\ UNCHANGED <<disableS3, sqlite, closed, prepareFiles, pushes, metaScheduled, fsVars,
                 extVars, op, cdoc, locals, unpushed, marked, removed, overlap, prior>>

CloseDocumentReturn(c) ==
  /\ op[c] = "closeDocument"
  /\ pc[c] = "flush_done"
  /\ Return(c, "ok")
  /\ UNCHANGED <<disableS3, sqlite, closed, localFiles, prepareFiles, uploads, pushes,
                 metaScheduled, fsVars, extVars, op, cdoc, awaited, locals, histVars>>

(***************************************************************************)
(* ChecksummedExternalStorage: exists and downloadTo.                      *)
(***************************************************************************)
IsDigest(md5) == md5 \notin {NullMD5, DELETED_TOKEN}

\* exists(key): what HEAD says, unless a known shared hash disagrees with
\* it (then the retries are exhausted and the call fails); any call to the
\* store may fail.
ExtExistsResults(key) ==
  LET there == remote[key] # NoFile IN
  {"rejected"} \cup
    (CASE key \in DOMAIN docMD5 /\ IsDigest(docMD5[key]) ->
            IF there /\ checksumFile(remote[key]) = docMD5[key] THEN {"true"} ELSE {}
       [] key \in DOMAIN docMD5 /\ docMD5[key] = DELETED_TOKEN ->
            IF there THEN {} ELSE {"false"}
       [] OTHER -> {IF there THEN "true" ELSE "false"})

\* downloadTo(fromKey, toKey, path, snapshotId) can succeed: the version
\* is there and, when it is the current one, agrees with the shared hash
\* of fromKey, if one is known.
ExtCanDownload(fromKey, snapshotId) ==
  /\ ExtVersionKey(fromKey, snapshotId) \in DOMAIN remote
  /\ remote[ExtVersionKey(fromKey, snapshotId)] # NoFile
  /\ (snapshotId = "" /\ fromKey \in DOMAIN docMD5 /\ IsDigest(docMD5[fromKey]))
       => checksumFile(remote[fromKey]) = docMD5[fromKey]

\* downloadTo succeeded: the file and its local hash are written.
ExtDownloaded(fromKey, toKey, snapshotId) ==
  LET content == remote[ExtVersionKey(fromKey, snapshotId)] IN
  /\ localFile' = [localFile EXCEPT ![toKey] = content]
  /\ hashFile' = [hashFile EXCEPT ![toKey] = checksumFile(content)]

(***************************************************************************)
(* prepareLocalDoc and _ensureDocumentIsPresent.                           *)
(***************************************************************************)
\* The promise created by caller c for docName settles with value v
\* (mapGetOrSet drops the key of a rejected promise).
EnsSettle(c, docName, v) ==
  /\ localFiles' = IF v = "rejected"
                   THEN [localFiles EXCEPT ![docName] = "none"]
                   ELSE IF localFiles[docName] = c
                        THEN [localFiles EXCEPT ![docName] = v]
                        ELSE localFiles
  /\ awaited' = [x \in Callers |-> IF awaited[x] = c THEN v ELSE awaited[x]]
  /\ pc' = [pc EXCEPT ![c] = "ensure_await"]

\* _fetchFromS3 returns v (or throws, v = "rejected") to caller c.
FetchReturn(c, v) ==
  IF op[c] = "replace"
  THEN /\ pc' = [pc EXCEPT ![c] = "repl_fetched"]
       /\ awaited' = [awaited EXCEPT ![c] = v]
       /\ localFiles' = localFiles
  ELSE EnsSettle(c, cdoc[c], v)

\* canCreateFork: a fork that names its user is created for that user only.
MayCreateFork(docName, userId) ==
  parseUrlId(docName).forkUserId # "" => parseUrlId(docName).forkUserId = userId

\* _ensureDocumentIsPresent(docName, docSession), up to its first await:
\* mapGetOrSet returns the cached promise or starts the materialization.
_ensureDocumentIsPresent(c, docName, canCreateFork) ==
  IF localFiles[docName] # "none"
  THEN /\ awaited' = [awaited EXCEPT ![c] = localFiles[docName]]
       /\ pc' = [pc EXCEPT ![c] = "ensure_await"]
       /\ UNCHANGED <<localFiles, locals>>
  ELSE IF closed
       THEN /\ awaited' = [awaited EXCEPT ![c] = "rejected"]
            /\ pc' = [pc EXCEPT ![c] = "ensure_await"]
            /\ UNCHANGED <<localFiles, locals>>
       ELSE IF checkValidDocIdThrows(docName)
       THEN /\ awaited' = [awaited EXCEPT ![c] = "rejected"]
            /\ pc' = [pc EXCEPT ![c] = "ensure_await"]
            /\ locals' = [locals EXCEPT ![c].err = "InvalidDocId"]
            /\ localFiles' = localFiles
       ELSE /\ localFiles' = [localFiles EXCEPT ![docName] = c]
            /\ awaited' = [awaited EXCEPT ![c] = c]
            /\ pc' = [pc EXCEPT ![c] = "ens_dir"]
            /\ locals' = [locals EXCEPT ![c].fork = canCreateFork]

\* Caller c invokes prepareLocalDoc(d, docSession), the session being that
\* of userId: closeDocument first.
CallPrepareLocalDoc(c, d, userId) ==
  /\ MicrotasksDrained
  /\ pc[c] = "idle"
  /\ op' = [op EXCEPT ![c] = "prepareLocalDoc"]
  /\ cdoc' = [cdoc EXCEPT ![c] = d]
  /\ locals' = [locals EXCEPT ![c].userId = userId]
  /\ closeDocument(c, d)
  /\ overlap' = [overlap EXCEPT ![c] =
                   \E o \in Callers \ {c} :
                     op[o] = "prepareLocalDoc" /\ cdoc[o] = d /\ pc[o] # "returned"]
  /\ prior' = [prior EXCEPT ![c] = localFile[d]]
  /\ UNCHANGED <<disableS3, sqlite, closed, prepareFiles, pushes, metaScheduled, fsVars,
                 extVars, result, unpushed, marked, removed>>

\* prepareLocalDoc whose reentrancy test is inside the try block: the
\* finally clause runs for the rejected call too.
PrepCheckInsideTry(c) ==
  /\ op[c] = "prepareLocalDoc"
  /\ pc[c] = "flush_done"
  /\ IF cdoc[c] \in prepareFiles
     THEN /\ Return(c, "ConcurrentPrepare")
          /\ prepareFiles' = prepareFiles \ {cdoc[c]}
          /\ UNCHANGED <<localFiles, awaited, locals>>
     ELSE /\ prepareFiles' = prepareFiles \cup {cdoc[c]}
          /\ _ensureDocumentIsPresent(c, cdoc[c],
               MayCreateFork(cdoc[c], locals[c].userId))
          /\ result' = result
  /\ UNCHANGED <<disableS3, sqlite, closed, uploads, pushes, metaScheduled, fsVars, extVars,
                 op, cdoc, histVars>>

\* prepareLocalDoc after closeDocument: the reentrancy test, then
\* _ensureDocumentIsPresent.
PrepCheck(c) ==
  /\ op[c] = "prepareLocalDoc"
  /\ pc[c] = "flush_done"
  /\ IF cdoc[c] \in prepareFiles
     THEN /\ Return(c, "ConcurrentPrepare")
          /\ UNCHANGED <<prepareFiles, localFiles, awaited, locals>>
     ELSE /\ prepareFiles' = prepareFiles \cup {cdoc[c]}
          /\ _ensureDocumentIsPresent(c, cdoc[c],
               MayCreateFork(cdoc[c], locals[c].userId))
          /\ result' = result
  /\ UNCHANGED <<disableS3, sqlite, closed, uploads, pushes, metaScheduled, fsVars, extVars,
                 op, cdoc, histVars>>

\* prepareLocalDoc that returns the presence itself.
PrepFinishPresent(c) ==
  /\ op[c] = "prepareLocalDoc"
  /\ pc[c] = "ensure_await"
  /\ awaited[c] \in Settled
  /\ prepareFiles' = prepareFiles \ {cdoc[c]}
  /\ Return(c, CASE awaited[c] = "rejected" -> "error"
                 [] awaited[c] = "true" -> "true"
                 [] awaited[c] = "false" -> "false")
  /\ UNCHANGED <<disableS3, sqlite, closed, localFiles, uploads, pushes, metaScheduled,
                 fsVars, extVars, op, cdoc, awaited, locals, histVars>>

\* prepareLocalDoc: the presence promise has settled; finally the doc
\* leaves _prepareFiles.
PrepFinish(c) ==
  /\ op[c] = "prepareLocalDoc"
  /\ pc[c] = "ensure_await"
  /\ awaited[c] \in Settled
  /\ prepareFiles' = prepareFiles \ {cdoc[c]}
  /\ Return(c, CASE awaited[c] = "rejected" -> "error"
                 [] awaited[c] = "true" -> "false"
                 [] awaited[c] = "false" -> "true")
  /\ UNCHANGED <<disableS3, sqlite, closed, localFiles, uploads, pushes, metaScheduled,
                 fsVars, extVars, op, cdoc, awaited, locals, histVars>>

\* _ensureDocumentIsPresent that only requires the document to be active.
EnsDirAnyWorker(c) ==
  /\ MicrotasksDrained
  /\ pc[c] = "ens_dir"
  /\ \E status \in {"self", "inactive", "other"} :
       IF status = "inactive"
       THEN /\ EnsSettle(c, cdoc[c], "rejected")
            /\ locals' = [locals EXCEPT ![c].status = status, ![c].err = "NotOwner"]
       ELSE /\ locals' = [locals EXCEPT ![c].status = status,
                                        ![c].md5 = docMD5[cdoc[c]]]
            /\ pc' = [pc EXCEPT ![c] = IF disableS3 THEN "ens_local" ELSE "ens_exists"]
            /\ UNCHANGED <<localFiles, awaited>>
  /\ UNCHANGED <<disableS3, sqlite, closed, prepareFiles, uploads, pushes, metaScheduled,
                 fsVars, extVars, op, cdoc, result, histVars>>

\* _ensureDocumentIsPresent whose rejected promise stays in the cache.
EnsDirKeepsFailure(c) ==
  /\ MicrotasksDrained
  /\ pc[c] = "ens_dir"
  /\ \E status \in {"self", "inactive", "other"} :
       IF status # "self"
       THEN /\ localFiles' = [localFiles EXCEPT ![cdoc[c]] = "rejected"]
            /\ awaited' = [x \in Callers |->
                             IF awaited[x] = c THEN "rejected" ELSE awaited[x]]
            /\ pc' = [pc EXCEPT ![c] = "ensure_await"]
            /\ locals' = [locals EXCEPT ![c].status = status, ![c].err = "NotOwner"]
       ELSE /\ locals' = [locals EXCEPT ![c].status = status,
                                        ![c].md5 = docMD5[cdoc[c]]]
            /\ pc' = [pc EXCEPT ![c] = IF disableS3 THEN "ens_local" ELSE "ens_exists"]
            /\ UNCHANGED <<localFiles, awaited>>
  /\ UNCHANGED <<disableS3, sqlite, closed, prepareFiles, uploads, pushes, metaScheduled,
                 fsVars, extVars, op, cdoc, result, histVars>>

\* getDocWorkerOrAssign answered (status: the document is active on this
\* worker, is not active, or belongs to another worker): the doc must be
\* active on this worker.
EnsDir(c) ==
  /\ MicrotasksDrained
  /\ pc[c] = "ens_dir"
  /\ \E status \in {"self", "inactive", "other"} :
       IF status # "self"
       THEN /\ EnsSettle(c, cdoc[c], "rejected")
            /\ locals' = [locals EXCEPT ![c].status = status, ![c].err = "NotOwner"]
       ELSE /\ locals' = [locals EXCEPT ![c].status = status,
                                        ![c].md5 = docMD5[cdoc[c]]]
            /\ pc' = [pc EXCEPT ![c] = IF disableS3 THEN "ens_local" ELSE "ens_exists"]
            /\ UNCHANGED <<localFiles, awaited>>
  /\ UNCHANGED <<disableS3, sqlite, closed, prepareFiles, uploads, pushes, metaScheduled,
                 fsVars, extVars, op, cdoc, result, histVars>>

\* The disableS3 branch that copies the trunk for any caller.
EnsLocalNoPermission(c) ==
  LET parts == parseUrlId(cdoc[c])
      present == localFile[cdoc[c]] # NoFile
  IN
  /\ MicrotasksDrained
  /\ pc[c] = "ens_local"
  /\ IF parts.forkId # "" /\ ~present
     THEN IF parts.snapshotId \notin {"", "current"}
          THEN /\ EnsSettle(c, cdoc[c], "rejected")
               /\ locals' = [locals EXCEPT ![c].err = "DocNotFound"]
          ELSE /\ pc' = [pc EXCEPT ![c] = "ens_trunk"]
               /\ UNCHANGED <<localFiles, awaited, locals>>
     ELSE /\ EnsSettle(c, cdoc[c], IF present THEN "true" ELSE "false")
          /\ locals' = [locals EXCEPT ![c].accepted = present]
  /\ UNCHANGED <<disableS3, sqlite, closed, prepareFiles, uploads, pushes, metaScheduled,
                 fsVars, extVars, op, cdoc, result, histVars>>

\* Without S3: the document is present if its file exists; a fork that is
\* missing is copied from its trunk, if the user may create it.
EnsLocal(c) ==
  LET parts == parseUrlId(cdoc[c])
      present == localFile[cdoc[c]] # NoFile
  IN
  /\ MicrotasksDrained
  /\ pc[c] = "ens_local"
  /\ IF parts.forkId # "" /\ ~present
     THEN IF ~locals[c].fork \/ parts.snapshotId \notin {"", "current"}
          THEN /\ EnsSettle(c, cdoc[c], "rejected")
               /\ locals' = [locals EXCEPT ![c].err =
                               IF ~locals[c].fork THEN "ForkForbidden"
                               ELSE "DocNotFound"]
          ELSE /\ pc' = [pc EXCEPT ![c] = "ens_trunk"]
               /\ UNCHANGED <<localFiles, awaited, locals>>
     ELSE /\ EnsSettle(c, cdoc[c], IF present THEN "true" ELSE "false")
          /\ locals' = [locals EXCEPT ![c].accepted = present]
  /\ UNCHANGED <<disableS3, sqlite, closed, prepareFiles, uploads, pushes, metaScheduled,
                 fsVars, extVars, op, cdoc, result, histVars>>

\* Without S3: fse.pathExists(getPath(trunkId)) answered.
EnsTrunk(c) ==
  /\ MicrotasksDrained
  /\ pc[c] = "ens_trunk"
  /\ IF localFile[parseUrlId(cdoc[c]).trunkId] # NoFile
     THEN /\ pc' = [pc EXCEPT ![c] = "ens_copy"]
          /\ UNCHANGED <<localFiles, awaited>>
     ELSE EnsSettle(c, cdoc[c], "false")
  /\ UNCHANGED <<disableS3, sqlite, closed, prepareFiles, uploads, pushes, metaScheduled,
                 fsVars, extVars, op, cdoc, result, locals, histVars>>

\* Without S3: fse.copy(getPath(trunkId), getPath(docName)) ended; it
\* throws when the trunk's file is gone.
EnsCopy(c) ==
  LET trunkId == parseUrlId(cdoc[c]).trunkId IN
  /\ MicrotasksDrained
  /\ pc[c] = "ens_copy"
  /\ IF localFile[trunkId] # NoFile
     THEN /\ localFile' = [localFile EXCEPT ![cdoc[c]] = localFile[trunkId]]
          /\ EnsSettle(c, cdoc[c], "true")
          /\ locals' = [locals EXCEPT ![c].fetched = TRUE]
     ELSE /\ EnsSettle(c, cdoc[c], "rejected")
          /\ UNCHANGED <<localFile, locals>>
  /\ UNCHANGED <<disableS3, sqlite, closed, prepareFiles, uploads, pushes, metaScheduled,
                 hashFile, backupFile, replacingFile, extVars, op, cdoc, result,
                 histVars>>

\* _fetchFromS3(destId, options), up to its first await.
_fetchFromS3(c) == pc' = [pc EXCEPT ![c] = "fetch_exists"]

\* _ensureDocumentIsPresent that verifies every local file.
EnsExistsAlwaysVerify(c) ==
  /\ MicrotasksDrained
  /\ pc[c] = "ens_exists"
  /\ IF localFile[cdoc[c]] # NoFile
     THEN /\ pc' = [pc EXCEPT ![c] = "ens_backup"]
          /\ UNCHANGED <<localFiles, awaited, locals>>
     ELSE /\ _fetchFromS3(c)
          /\ UNCHANGED <<localFiles, awaited, locals>>
  /\ UNCHANGED <<disableS3, sqlite, closed, prepareFiles, uploads, pushes, metaScheduled,
                 fsVars, extVars, op, cdoc, result, histVars>>

\* With S3: existsLocally is known.
EnsExists(c) ==
  /\ MicrotasksDrained
  /\ pc[c] = "ens_exists"
  /\ IF localFile[cdoc[c]] # NoFile
     THEN IF ~IsDigest(locals[c].md5)
          THEN /\ EnsSettle(c, cdoc[c], "true")
               /\ locals' = [locals EXCEPT ![c].accepted = TRUE]
          ELSE /\ pc' = [pc EXCEPT ![c] = "ens_backup"]
               /\ UNCHANGED <<localFiles, awaited, locals>>
     ELSE /\ _fetchFromS3(c)
          /\ UNCHANGED <<localFiles, awaited, locals>>
  /\ UNCHANGED <<disableS3, sqlite, closed, prepareFiles, uploads, pushes, metaScheduled,
                 fsVars, extVars, op, cdoc, result, histVars>>

\* _prepareBackup(docName) for the checksum: a sidecar, or a failure.
EnsBackup(c) ==
  /\ MicrotasksDrained
  /\ pc[c] = "ens_backup"
  /\ \/ /\ localFile[cdoc[c]] # NoFile
        /\ backupFile' = [backupFile EXCEPT ![cdoc[c]] = localFile[cdoc[c]]]
        /\ pc' = [pc EXCEPT ![c] = "ens_hash"]
        /\ UNCHANGED <<localFiles, awaited>>
     \/ /\ backupFile' = [backupFile EXCEPT ![cdoc[c]] = NoFile]
        /\ EnsSettle(c, cdoc[c], "rejected")
  /\ UNCHANGED <<disableS3, sqlite, closed, prepareFiles, uploads, pushes, metaScheduled,
                 localFile, hashFile, replacingFile, extVars, op, cdoc, result,
                 locals, histVars>>

\* _ensureDocumentIsPresent that takes every local file with a docMD5 for
\* outdated.
EnsHashAlwaysStale(c) ==
  /\ MicrotasksDrained
  /\ pc[c] = "ens_hash"
  /\ IF backupFile[cdoc[c]] = NoFile
     THEN /\ EnsSettle(c, cdoc[c], "rejected")
          /\ locals' = locals
     ELSE /\ pc' = [pc EXCEPT ![c] = "ens_remove"]
          /\ UNCHANGED <<localFiles, awaited, locals>>
  /\ UNCHANGED <<disableS3, sqlite, closed, prepareFiles, uploads, pushes, metaScheduled,
                 fsVars, extVars, op, cdoc, result, histVars>>

\* _ensureDocumentIsPresent that keeps a local file whatever its checksum.
EnsHashLocalWins(c) ==
  /\ MicrotasksDrained
  /\ pc[c] = "ens_hash"
  /\ IF backupFile[cdoc[c]] = NoFile
     THEN /\ EnsSettle(c, cdoc[c], "rejected")
          /\ locals' = locals
     ELSE /\ EnsSettle(c, cdoc[c], "true")
          /\ locals' = [locals EXCEPT ![c].accepted = TRUE]
  /\ UNCHANGED <<disableS3, sqlite, closed, prepareFiles, uploads, pushes, metaScheduled,
                 fsVars, extVars, op, cdoc, result, histVars>>

\* _getHash of the sidecar, compared with docStatus.docMD5.
EnsHash(c) ==
  /\ MicrotasksDrained
  /\ pc[c] = "ens_hash"
  /\ IF backupFile[cdoc[c]] = NoFile
     THEN /\ EnsSettle(c, cdoc[c], "rejected")
          /\ locals' = locals
     ELSE IF checksumFile(backupFile[cdoc[c]]) = locals[c].md5
          THEN /\ EnsSettle(c, cdoc[c], "true")
               /\ locals' = [locals EXCEPT ![c].accepted = TRUE]
          ELSE /\ pc' = [pc EXCEPT ![c] = "ens_remove"]
               /\ UNCHANGED <<localFiles, awaited, locals>>
  /\ UNCHANGED <<disableS3, sqlite, closed, prepareFiles, uploads, pushes, metaScheduled,
                 fsVars, extVars, op, cdoc, result, histVars>>

\* _ensureDocumentIsPresent that fetches over the outdated local file.
EnsRemoveKeepsFile(c) ==
  /\ MicrotasksDrained
  /\ pc[c] = "ens_remove"
  /\ _fetchFromS3(c)
  /\ UNCHANGED <<disableS3, sqlite, closed, localFiles, prepareFiles, uploads, pushes,
                 metaScheduled, fsVars, extVars, op, cdoc, result, awaited,
                 locals, histVars>>

\* The outdated local file is removed; then _fetchFromS3.
EnsRemove(c) ==
  /\ MicrotasksDrained
  /\ pc[c] = "ens_remove"
  /\ localFile' = [localFile EXCEPT ![cdoc[c]] = NoFile]
  /\ _fetchFromS3(c)
  /\ UNCHANGED <<disableS3, sqlite, closed, localFiles, prepareFiles, uploads, pushes,
                 metaScheduled, hashFile, backupFile, replacingFile, extVars,
                 op, cdoc, result, awaited, locals, histVars>>

(***************************************************************************)
(* getCopy(docName)                                                        *)
(***************************************************************************)
\* Caller c invokes getCopy(docName): _ensureDocumentIsPresent with a
\* session that has no user.
CallGetCopy(c, d) ==
  /\ MicrotasksDrained
  /\ pc[c] = "idle"
  /\ op' = [op EXCEPT ![c] = "getCopy"]
  /\ cdoc' = [cdoc EXCEPT ![c] = d]
  /\ _ensureDocumentIsPresent(c, d, MayCreateFork(d, ""))
  /\ UNCHANGED <<disableS3, sqlite, closed, prepareFiles, uploads, pushes, metaScheduled,
                 fsVars, extVars, result, histVars>>

\* The presence promise has settled: a document that is not there cannot
\* be copied; else _prepareBackup(docName, uuidv4()) is awaited.
GetCopyEnsured(c) ==
  /\ op[c] = "getCopy"
  /\ pc[c] = "ensure_await"
  /\ awaited[c] \in Settled
  /\ IF awaited[c] = "true"
     THEN /\ pc' = [pc EXCEPT ![c] = "copy_backup"]
          /\ result' = result
     ELSE Return(c, "error")
  /\ UNCHANGED <<disableS3, sqlite, closed, localFiles, prepareFiles, uploads, pushes,
                 metaScheduled, fsVars, extVars, op, cdoc, awaited, locals, histVars>>

\* getCopy whose backup goes to the default sidecar.
GetCopyBackupDefaultPostfix(c) ==
  /\ MicrotasksDrained
  /\ pc[c] = "copy_backup"
  /\ \/ /\ localFile[cdoc[c]] # NoFile
        /\ backupFile' = [backupFile EXCEPT ![cdoc[c]] = localFile[cdoc[c]]]
        /\ locals' = locals
        /\ Return(c, "ok")
     \/ /\ locals' = locals
        /\ backupFile' = backupFile
        /\ Return(c, "error")
  /\ UNCHANGED <<disableS3, sqlite, closed, localFiles, prepareFiles, uploads, pushes,
                 metaScheduled, localFile, hashFile, replacingFile, extVars, op, cdoc,
                 awaited, histVars>>

\* backupSqliteDatabase ended: the copy is a file of its own, with the
\* content of the live file, or the backup failed.
GetCopyBackup(c) ==
  /\ MicrotasksDrained
  /\ pc[c] = "copy_backup"
  /\ \/ /\ localFile[cdoc[c]] # NoFile
        /\ locals' = [locals EXCEPT ![c].copy = localFile[cdoc[c]]]
        /\ Return(c, "ok")
     \/ /\ locals' = locals
        /\ Return(c, "error")
  /\ UNCHANGED <<disableS3, sqlite, closed, localFiles, prepareFiles, uploads, pushes,
                 metaScheduled, fsVars, extVars, op, cdoc, awaited, histVars>>

(***************************************************************************)
(* _fetchFromS3(destId, options), for prepareLocalDoc and for replace.     *)
(***************************************************************************)
\* app/common/gristUrls: the trunk of a fork that starts a new document.
NEW_DOCUMENT_CODE == "new"

\* options.sourceDocId || destIdWithoutSnapshot, or the trunk once
\* _fetchFromS3 has fallen back to it.
FetchSource(c) ==
  IF locals[c].src # "" THEN locals[c].src ELSE WithoutSnapshot(cdoc[c])

\* options.trunkId: prepareLocalDoc passes the trunk of a fork, replace
\* passes none.
FetchTrunkId(c) ==
  IF op[c] # "replace" /\ parseUrlId(cdoc[c]).forkId # ""
  THEN parseUrlId(cdoc[c]).trunkId
  ELSE ""

\* options.snapshotId
FetchSnapshotId(c) ==
  IF op[c] = "replace" THEN locals[c].snapshotId ELSE parseUrlId(cdoc[c]).snapshotId

\* _fetchFromS3 that takes every document missing from the store for not
\* found, forks included.
FetchExistsNoTrunk(c) ==
  /\ MicrotasksDrained
  /\ pc[c] = "fetch_exists"
  /\ \E r \in ExtExistsResults(WithoutSnapshot(cdoc[c])) :
       CASE r = "rejected" ->
              /\ FetchReturn(c, "rejected")
              /\ locals' = locals
         [] r = "true" ->
              /\ pc' = [pc EXCEPT ![c] = "fetch_download"]
              /\ locals' = [locals EXCEPT ![c].sawRemote = TRUE]
              /\ UNCHANGED <<localFiles, awaited>>
         [] r = "false" ->
              /\ FetchReturn(c, "false")
              /\ locals' = locals
  /\ UNCHANGED <<disableS3, sqlite, closed, prepareFiles, uploads, pushes, metaScheduled,
                 fsVars, extVars, op, cdoc, result, histVars>>

\* _fetchFromS3 that creates a fork from its trunk for any caller.
FetchExistsNoPermission(c) ==
  /\ MicrotasksDrained
  /\ pc[c] = "fetch_exists"
  /\ \E r \in ExtExistsResults(WithoutSnapshot(cdoc[c])) :
       CASE r = "rejected" ->
              /\ FetchReturn(c, "rejected")
              /\ locals' = locals
         [] r = "true" ->
              /\ pc' = [pc EXCEPT ![c] = "fetch_download"]
              /\ locals' = [locals EXCEPT ![c].sawRemote = TRUE]
              /\ UNCHANGED <<localFiles, awaited>>
         [] r = "false" ->
              IF FetchTrunkId(c) = ""
              THEN /\ FetchReturn(c, "false")
                   /\ locals' = locals
              ELSE IF FetchTrunkId(c) = NEW_DOCUMENT_CODE
                   THEN /\ FetchReturn(c, "false")
                        /\ locals' = locals
                   ELSE /\ pc' = [pc EXCEPT ![c] = "fetch_trunk"]
                        /\ UNCHANGED <<localFiles, awaited, locals>>
  /\ UNCHANGED <<disableS3, sqlite, closed, prepareFiles, uploads, pushes, metaScheduled,
                 fsVars, extVars, op, cdoc, result, histVars>>

\* this._ext.exists(destIdWithoutSnapshot) answered.  A document without a
\* trunk that is not in the store is not found; a fork is fetched from
\* its trunk, if the user may create it.
FetchExists(c) ==
  /\ MicrotasksDrained
  /\ pc[c] = "fetch_exists"
  /\ \E r \in ExtExistsResults(WithoutSnapshot(cdoc[c])) :
       CASE r = "rejected" ->
              /\ FetchReturn(c, "rejected")
              /\ locals' = locals
         [] r = "true" ->
              /\ pc' = [pc EXCEPT ![c] = "fetch_download"]
              /\ locals' = [locals EXCEPT ![c].sawRemote = TRUE]
              /\ UNCHANGED <<localFiles, awaited>>
         [] r = "false" ->
              IF FetchTrunkId(c) = ""
              THEN /\ FetchReturn(c, "false")
                   /\ locals' = locals
              ELSE IF ~locals[c].fork
                   THEN /\ FetchReturn(c, "rejected")
                        /\ locals' = [locals EXCEPT ![c].err = "ForkForbidden"]
                   ELSE IF FetchTrunkId(c) = NEW_DOCUMENT_CODE
                        THEN /\ FetchReturn(c, "false")
                             /\ locals' = locals
                        ELSE /\ pc' = [pc EXCEPT ![c] = "fetch_trunk"]
                             /\ UNCHANGED <<localFiles, awaited, locals>>
  /\ UNCHANGED <<disableS3, sqlite, closed, prepareFiles, uploads, pushes, metaScheduled,
                 fsVars, extVars, op, cdoc, result, histVars>>

\* this._ext.exists(options.trunkId) answered: the trunk must exist, and
\* becomes the source of the download.
FetchTrunk(c) ==
  /\ MicrotasksDrained
  /\ pc[c] = "fetch_trunk"
  /\ \E r \in ExtExistsResults(FetchTrunkId(c)) :
       IF r = "true"
       THEN /\ pc' = [pc EXCEPT ![c] = "fetch_download"]
            /\ locals' = [locals EXCEPT ![c].src = FetchTrunkId(c)]
            /\ UNCHANGED <<localFiles, awaited>>
       ELSE /\ FetchReturn(c, "rejected")
            /\ locals' = IF r = "false"
                         THEN [locals EXCEPT ![c].err = "DocNotFound"]
                         ELSE locals
  /\ UNCHANGED <<disableS3, sqlite, closed, prepareFiles, uploads, pushes, metaScheduled,
                 fsVars, extVars, op, cdoc, result, histVars>>

\* this._ext.downloadTo(sourceDocId, destId, path, snapshotId) ended.
FetchDownload(c) ==
  /\ MicrotasksDrained
  /\ pc[c] = "fetch_download"
  /\ \/ /\ ExtCanDownload(FetchSource(c), FetchSnapshotId(c))
        /\ ExtDownloaded(FetchSource(c), cdoc[c], FetchSnapshotId(c))
        /\ FetchReturn(c, "true")
        /\ locals' = [locals EXCEPT ![c].fetched = TRUE]
     \/ /\ FetchReturn(c, "rejected")
        /\ UNCHANGED <<localFile, hashFile, locals>>
  /\ UNCHANGED <<disableS3, sqlite, closed, prepareFiles, uploads, pushes, metaScheduled,
                 backupFile, replacingFile, extVars, op, cdoc, result, histVars>>

(***************************************************************************)
(* replace(docId, options)                                                 *)
(***************************************************************************)
\* Caller c invokes replace(d, {sourceDocId: src, snapshotId}); "" stands
\* for an option that is not given.  The current version is flushed first.
CallReplace(c, d, src, snapshotId) ==
  LET rawSourceDocId == IF src # "" THEN src ELSE d IN
  /\ MicrotasksDrained
  /\ pc[c] = "idle"
  /\ op' = [op EXCEPT ![c] = "replace"]
  /\ cdoc' = [cdoc EXCEPT ![c] = d]
  /\ locals' = [locals EXCEPT
                  ![c].src = WithoutSnapshot(rawSourceDocId),
                  ![c].snapshotId = IF snapshotId # "" THEN snapshotId
                                    ELSE parseUrlId(rawSourceDocId).snapshotId,
                  ![c].stage = 1]
  /\ flushDoc(c, d)
  /\ UNCHANGED <<disableS3, sqlite, closed, localFiles, prepareFiles, pushes, metaScheduled,
                 fsVars, extVars, result, awaited, unpushed, marked, removed, overlap, prior>>

\* replace that goes on to fetch even when the source is the document
\* itself.
ReplFlushedNoSelfTest(c) ==
  /\ op[c] = "replace"
  /\ pc[c] = "flush_done"
  /\ locals[c].stage = 1
  /\ IF disableS3 /\ locals[c].snapshotId # ""
     THEN Return(c, "error")
     ELSE /\ pc' = [pc EXCEPT ![c] = IF disableS3 THEN "repl_local" ELSE "repl_rm_tmp"]
          /\ result' = result
  /\ UNCHANGED <<disableS3, sqlite, closed, localFiles, prepareFiles, uploads, pushes,
                 metaScheduled, fsVars, extVars, op, cdoc, awaited, locals, histVars>>

\* After the first flush: nothing to do when the source is the document
\* itself; without S3 a local copy; else the -replacing file is cleared.
\* getPath of the source (without S3) or of the document (with S3) is
\* formed before the first file operation.
ReplFlushed(c) ==
  /\ op[c] = "replace"
  /\ pc[c] = "flush_done"
  /\ locals[c].stage = 1
  /\ IF FetchSource(c) = cdoc[c] /\ locals[c].snapshotId = ""
     THEN Return(c, "ok")
     ELSE IF disableS3 /\ locals[c].snapshotId # ""
          THEN Return(c, "error")
          ELSE IF checkValidDocIdThrows(IF disableS3 THEN FetchSource(c) ELSE cdoc[c])
          THEN Return(c, "InvalidDocId")
          ELSE /\ pc' = [pc EXCEPT ![c] = IF disableS3 THEN "repl_local" ELSE "repl_rm_tmp"]
               /\ result' = result
  /\ UNCHANGED <<disableS3, sqlite, closed, localFiles, prepareFiles, uploads, pushes,
                 metaScheduled, fsVars, extVars, op, cdoc, awaited, locals, histVars>>

\* Without S3: fse.pathExists(getPath(sourceDocId)) answered; the paths
\* of the copy are formed next.
ReplLocal(c) ==
  /\ MicrotasksDrained
  /\ pc[c] = "repl_local"
  /\ IF localFile[FetchSource(c)] # NoFile
     THEN IF checkValidDocIdThrows(cdoc[c])
          THEN Return(c, "InvalidDocId")
          ELSE /\ pc' = [pc EXCEPT ![c] = "repl_copy"]
               /\ result' = result
     ELSE Return(c, "error")
  /\ UNCHANGED <<disableS3, sqlite, closed, localFiles, prepareFiles, uploads, pushes,
                 metaScheduled, fsVars, extVars, op, cdoc, awaited, locals, histVars>>

\* Without S3: fse.copy(getPath(sourceDocId), getPath(docId)) ended.
ReplCopy(c) ==
  /\ MicrotasksDrained
  /\ pc[c] = "repl_copy"
  /\ IF localFile[FetchSource(c)] # NoFile
     THEN /\ localFile' = [localFile EXCEPT ![cdoc[c]] = localFile[FetchSource(c)]]
          /\ Return(c, "ok")
     ELSE /\ localFile' = localFile
          /\ Return(c, "error")
  /\ UNCHANGED <<disableS3, sqlite, closed, localFiles, prepareFiles, uploads, pushes,
                 metaScheduled, hashFile, backupFile, replacingFile, extVars,
                 op, cdoc, awaited, locals, histVars>>

\* fse.remove(tmpPath) before the swap.
ReplRmTmp(c) ==
  /\ MicrotasksDrained
  /\ pc[c] = "repl_rm_tmp"
  /\ replacingFile' = [replacingFile EXCEPT ![cdoc[c]] = NoFile]
  /\ pc' = [pc EXCEPT ![c] = "repl_exists"]
  /\ UNCHANGED <<disableS3, sqlite, closed, localFiles, prepareFiles, uploads, pushes,
                 metaScheduled, localFile, hashFile, backupFile, extVars,
                 op, cdoc, result, awaited, locals, histVars>>

\* fse.pathExists(docPath) answered: move the file aside, or fetch at once.
ReplExists(c) ==
  /\ MicrotasksDrained
  /\ pc[c] = "repl_exists"
  /\ IF localFile[cdoc[c]] # NoFile
     THEN pc' = [pc EXCEPT ![c] = "repl_move"]
     ELSE _fetchFromS3(c)
  /\ UNCHANGED <<disableS3, sqlite, closed, localFiles, prepareFiles, uploads, pushes,
                 metaScheduled, fsVars, extVars, op, cdoc, result, awaited, locals,
                 histVars>>

\* fse.move(docPath, tmpPath) ended; it throws when docPath is gone or
\* tmpPath exists.
ReplMove(c) ==
  /\ MicrotasksDrained
  /\ pc[c] = "repl_move"
  /\ IF localFile[cdoc[c]] # NoFile /\ replacingFile[cdoc[c]] = NoFile
     THEN /\ replacingFile' = [replacingFile EXCEPT ![cdoc[c]] = localFile[cdoc[c]]]
          /\ localFile' = [localFile EXCEPT ![cdoc[c]] = NoFile]
          /\ _fetchFromS3(c)
          /\ result' = result
          /\ prior' = [prior EXCEPT ![c] = localFile[cdoc[c]]]
     ELSE /\ Return(c, "error")
          /\ UNCHANGED <<replacingFile, localFile, prior>>
  /\ UNCHANGED <<disableS3, sqlite, closed, localFiles, prepareFiles, uploads, pushes,
                 metaScheduled, hashFile, backupFile, extVars, op, cdoc, awaited,
                 locals, unpushed, marked, removed, need, credit, overlap>>

\* _fetchFromS3 ended: on success the hash file is removed next; when
\* nothing was fetched the catch block moves the old file back.
ReplFetched(c) ==
  /\ pc[c] = "repl_fetched"
  /\ pc' = [pc EXCEPT ![c] = IF awaited[c] = "true" THEN "repl_rm_hash" ELSE "repl_restore"]
  /\ awaited' = [awaited EXCEPT ![c] = "none"]
  /\ UNCHANGED <<disableS3, sqlite, closed, localFiles, prepareFiles, uploads, pushes,
                 metaScheduled, fsVars, extVars, op, cdoc, result, locals, histVars>>

\* The hash file is removed; markAsChanged and markAsEdited; finally the
\* -replacing file is removed.  A throwing markAsChanged leads to the catch.
ReplRmHash(c) ==
  /\ MicrotasksDrained
  /\ pc[c] = "repl_rm_hash"
  /\ hashFile' = [hashFile EXCEPT ![cdoc[c]] = NullMD5]
  /\ markAsChanged(cdoc[c])
  /\ IF markAsChangedThrows(cdoc[c])
     THEN /\ pc' = [pc EXCEPT ![c] = "repl_restore"]
          /\ metaScheduled' = metaScheduled
     ELSE /\ pc' = [pc EXCEPT ![c] = "repl_rm_tmp2"]
          /\ markAsEdited(cdoc[c])
  /\ UNCHANGED <<disableS3, sqlite, closed, prepareFiles, pushes,
                 localFile, backupFile, replacingFile, extVars,
                 op, cdoc, result, awaited, locals, need, overlap, prior>>

\* replace whose catch block leaves the old file aside.
ReplRestoreNoMove(c) ==
  /\ MicrotasksDrained
  /\ pc[c] = "repl_restore"
  /\ pc' = [pc EXCEPT ![c] = "repl_rm_tmp_err"]
  /\ UNCHANGED <<disableS3, sqlite, closed, localFiles, prepareFiles, uploads, pushes,
                 metaScheduled, fsVars, extVars, op, cdoc, result,
                 awaited, locals, histVars>>

\* catch: fse.move(tmpPath, docPath, {overwrite: true}); it throws when
\* there is no -replacing file.  The error is rethrown after the finally.
ReplRestore(c) ==
  /\ MicrotasksDrained
  /\ pc[c] = "repl_restore"
  /\ IF replacingFile[cdoc[c]] # NoFile
     THEN /\ localFile' = [localFile EXCEPT ![cdoc[c]] = replacingFile[cdoc[c]]]
          /\ replacingFile' = [replacingFile EXCEPT ![cdoc[c]] = NoFile]
     ELSE UNCHANGED <<localFile, replacingFile>>
  /\ pc' = [pc EXCEPT ![c] = "repl_rm_tmp_err"]
  /\ UNCHANGED <<disableS3, sqlite, closed, localFiles, prepareFiles, uploads, pushes,
                 metaScheduled, hashFile, backupFile, extVars, op, cdoc, result,
                 awaited, locals, histVars>>

\* finally, after a failure: fse.remove(tmpPath); replace rejects.
ReplRmTmpErr(c) ==
  /\ MicrotasksDrained
  /\ pc[c] = "repl_rm_tmp_err"
  /\ replacingFile' = [replacingFile EXCEPT ![cdoc[c]] = NoFile]
  /\ Return(c, "error")
  /\ UNCHANGED <<disableS3, sqlite, closed, localFiles, prepareFiles, uploads, pushes,
                 metaScheduled, localFile, hashFile, backupFile, extVars, op, cdoc,
                 awaited, locals, histVars>>

\* replace that resolves without the second flushDoc.
ReplRmTmp2NoFlush(c) ==
  /\ MicrotasksDrained
  /\ pc[c] = "repl_rm_tmp2"
  /\ replacingFile' = [replacingFile EXCEPT ![cdoc[c]] = NoFile]
  /\ locals' = [locals EXCEPT ![c].stage = 2]
  /\ Return(c, "ok")
  /\ UNCHANGED <<disableS3, sqlite, closed, localFiles, prepareFiles, uploads, pushes,
                 metaScheduled, localFile, hashFile, backupFile, extVars, op, cdoc,
                 awaited, histVars>>

\* finally, after success: fse.remove(tmpPath); then the second flushDoc.
ReplRmTmp2(c) ==
  /\ MicrotasksDrained
  /\ pc[c] = "repl_rm_tmp2"
  /\ replacingFile' = [replacingFile EXCEPT ![cdoc[c]] = NoFile]
  /\ locals' = [locals EXCEPT ![c].stage = 2]
  /\ flushDoc(c, cdoc[c])
  /\ UNCHANGED <<disableS3, sqlite, closed, localFiles, prepareFiles, pushes, metaScheduled,
                 localFile, hashFile, backupFile, extVars, op, cdoc, result,
                 awaited, unpushed, marked, removed, overlap, prior>>

\* The second flushDoc resolved: replace resolves.
ReplDone(c) ==
  /\ op[c] = "replace"
  /\ pc[c] = "flush_done"
  /\ locals[c].stage = 2
  /\ Return(c, "ok")
  /\ UNCHANGED <<disableS3, sqlite, closed, localFiles, prepareFiles, uploads, pushes,
                 metaScheduled, fsVars, extVars, op, cdoc, awaited, locals, histVars>>

(***************************************************************************)
(* deleteDoc(docName, deletePermanently)                                   *)
(***************************************************************************)
\* The object of key: its current version and its older ones.
ExtVersionsOf(key) ==
  {key} \cup {k \in VersionKeys : \E v \in SnapshotIds : k = ExtVersionKey(key, v)}

\* remove(key) of the store: DELETE, and the shared hash becomes the
\* DELETED sentinel.
ExtRemoved(key) ==
  /\ remote' = [k \in DOMAIN remote |->
                  IF k \in ExtVersionsOf(key) THEN NoFile ELSE remote[k]]
  /\ docMD5' = [docMD5 EXCEPT ![key] = DELETED_TOKEN]

\* remove(key) failed: the DELETE may or may not have reached the store.
ExtRemoveFailed(key) ==
  /\ \E gone \in BOOLEAN :
       remote' = IF gone
                 THEN [k \in DOMAIN remote |->
                         IF k \in ExtVersionsOf(key) THEN NoFile ELSE remote[k]]
                 ELSE remote
  /\ docMD5' = docMD5

\* deleteDoc that deletes permanently whatever its flag.
CallDeleteDocAlways(c, d, deletePermanently) ==
  /\ MicrotasksDrained
  /\ pc[c] = "idle"
  /\ op' = [op EXCEPT ![c] = "deleteDoc"]
  /\ cdoc' = [cdoc EXCEPT ![c] = d]
  /\ closeDocument(c, d)
  /\ UNCHANGED <<disableS3, sqlite, closed, prepareFiles, pushes, metaScheduled, fsVars,
                 extVars, result, locals, unpushed, marked, removed, overlap, prior>>

\* deleteDoc that goes to the store without closing the document.
CallDeleteDocNoClose(c, d, deletePermanently) ==
  /\ MicrotasksDrained
  /\ pc[c] = "idle"
  /\ op' = [op EXCEPT ![c] = "deleteDoc"]
  /\ cdoc' = [cdoc EXCEPT ![c] = d]
  /\ IF ~deletePermanently
     THEN Return(c, "UnsupportedOp")
     ELSE /\ pc' = [pc EXCEPT ![c] = IF disableS3 THEN "del_local" ELSE "del_remote"]
          /\ result' = result
  /\ UNCHANGED <<disableS3, sqlite, closed, localFiles, prepareFiles, uploads, pushes,
                 metaScheduled, fsVars, extVars, awaited, locals, histVars>>

\* Caller c invokes deleteDoc(d, deletePermanently): only permanent
\* deletion is implemented; the document is closed first.
CallDeleteDoc(c, d, deletePermanently) ==
  /\ MicrotasksDrained
  /\ pc[c] = "idle"
  /\ op' = [op EXCEPT ![c] = "deleteDoc"]
  /\ cdoc' = [cdoc EXCEPT ![c] = d]
  /\ IF ~deletePermanently
     THEN /\ Return(c, "UnsupportedOp")
          /\ UNCHANGED <<localFiles, uploads, awaited, need, credit>>
     ELSE /\ closeDocument(c, d)
          /\ result' = result
  /\ UNCHANGED <<disableS3, sqlite, closed, prepareFiles, pushes, metaScheduled, fsVars,
                 extVars, locals, unpushed, marked, removed, overlap, prior>>

\* closeDocument resolved: with S3 the remote object is removed first;
\* without S3 getPath(docName) is formed for the first fse.remove.
DelClosed(c) ==
  /\ op[c] = "deleteDoc"
  /\ pc[c] = "flush_done"
  /\ IF ~disableS3
     THEN /\ pc' = [pc EXCEPT ![c] = "del_remote"]
          /\ result' = result
     ELSE IF checkValidDocIdThrows(cdoc[c])
          THEN Return(c, "InvalidDocId")
          ELSE /\ pc' = [pc EXCEPT ![c] = "del_local"]
               /\ result' = result
  /\ UNCHANGED <<disableS3, sqlite, closed, localFiles, prepareFiles, uploads, pushes,
                 metaScheduled, fsVars, extVars, op, cdoc, awaited, locals,
                 histVars>>

\* this._ext.remove(docName) ended; getPath(docName) is formed for the
\* first fse.remove.
DelRemote(c) ==
  /\ MicrotasksDrained
  /\ pc[c] = "del_remote"
  /\ \/ /\ ExtRemoved(cdoc[c])
        /\ IF checkValidDocIdThrows(cdoc[c])
           THEN Return(c, "InvalidDocId")
           ELSE /\ pc' = [pc EXCEPT ![c] = "del_local"]
                /\ result' = result
     \/ /\ ExtRemoveFailed(cdoc[c])
        /\ Return(c, "error")
  /\ removed' = removed \cup {cdoc[c]}
  /\ UNCHANGED <<disableS3, sqlite, closed, localFiles, prepareFiles, uploads, pushes,
                 metaScheduled, fsVars, op, cdoc, awaited, locals,
                 unpushed, marked, need, credit, overlap, prior>>

\* fse.remove(getPath(docName)) ended.
DelLocal(c) ==
  /\ MicrotasksDrained
  /\ pc[c] = "del_local"
  /\ localFile' = [localFile EXCEPT ![cdoc[c]] = NoFile]
  /\ pc' = [pc EXCEPT ![c] = "del_hash"]
  /\ removed' = removed \cup {cdoc[c]}
  /\ UNCHANGED <<disableS3, sqlite, closed, localFiles, prepareFiles, uploads, pushes,
                 metaScheduled, hashFile, backupFile, replacingFile, extVars,
                 op, cdoc, result, awaited, locals,
                 unpushed, marked, need, credit, overlap, prior>>

\* deleteDoc that leaves a marker in the -hash file instead of removing it.
DelHashMarker(c) ==
  /\ MicrotasksDrained
  /\ pc[c] = "del_hash"
  /\ hashFile' = [hashFile EXCEPT ![cdoc[c]] = DELETED_TOKEN]
  /\ Return(c, "ok")
  /\ removed' = removed \cup {cdoc[c]}
  /\ UNCHANGED <<disableS3, sqlite, closed, localFiles, prepareFiles, uploads, pushes,
                 metaScheduled, localFile, backupFile, replacingFile, extVars,
                 op, cdoc, awaited, locals,
                 unpushed, marked, need, credit, overlap, prior>>

\* fse.remove(_getHashFile(getPath(docName))) ended: deleteDoc resolves.
DelHash(c) ==
  /\ MicrotasksDrained
  /\ pc[c] = "del_hash"
  /\ hashFile' = [hashFile EXCEPT ![cdoc[c]] = NullMD5]
  /\ Return(c, "ok")
  /\ removed' = removed \cup {cdoc[c]}
  /\ UNCHANGED <<disableS3, sqlite, closed, localFiles, prepareFiles, uploads, pushes,
                 metaScheduled, localFile, backupFile, replacingFile, extVars,
                 op, cdoc, awaited, locals,
                 unpushed, marked, need, credit, overlap, prior>>

(***************************************************************************)
(* closeStorage(), and markAsChanged / markAsEdited called by a task that  *)
(* sees their outcome.                                                     *)
(***************************************************************************)
\* Caller c invokes closeStorage(): this._uploads.wait(...) is awaited.
CallCloseStorage(c) ==
  /\ MicrotasksDrained
  /\ pc[c] = "idle"
  /\ op' = [op EXCEPT ![c] = "closeStorage"]
  /\ pc' = [pc EXCEPT ![c] = "cs_wait"]
  /\ UNCHANGED <<disableS3, sqlite, closed, localFiles, prepareFiles, uploads, pushes,
                 metaScheduled, fsVars, extVars, cdoc, result, awaited, locals,
                 histVars>>

\* wait() resolved: no operation is scheduled or running.  The metadata
\* manager is closed next.
CsWaited(c) ==
  /\ pc[c] = "cs_wait"
  /\ ~hasPendingOperations(uploads)
  /\ pc' = [pc EXCEPT ![c] = "cs_meta"]
  /\ UNCHANGED <<disableS3, sqlite, closed, localFiles, prepareFiles, uploads, pushes,
                 metaScheduled, fsVars, extVars, op, cdoc, result, awaited, locals,
                 histVars>>

\* closeStorage that does not wait for the documents being prepared.
CsLoopNoDelay(c) ==
  /\ pc' = [pc EXCEPT ![c] = "cs_all"]
  /\ awaited' = [awaited EXCEPT ![c] =
                   IF \E d \in DocIds : localFiles[d] \in Callers
                   THEN CHOOSE o \in Callers : \E d \in DocIds : localFiles[d] = o
                   ELSE "true"]

\* while (this._prepareFiles.size > 0) { await delay(100); }, then
\* Promise.all(this._localFiles.values()): the promise awaited is that of
\* the one other task that can be materializing a document.
CsLoop(c) ==
  IF prepareFiles # {}
  THEN /\ pc' = [pc EXCEPT ![c] = "cs_delay"]
       /\ awaited' = awaited
  ELSE /\ pc' = [pc EXCEPT ![c] = "cs_all"]
       /\ awaited' = [awaited EXCEPT ![c] =
                        IF \E d \in DocIds : localFiles[d] \in Callers
                        THEN CHOOSE o \in Callers : \E d \in DocIds : localFiles[d] = o
                        ELSE "true"]

\* this._metadataManager.close() ended.
CsMeta(c) ==
  /\ MicrotasksDrained
  /\ pc[c] = "cs_meta"
  /\ CsLoop(c)
  /\ UNCHANGED <<disableS3, sqlite, closed, localFiles, prepareFiles, uploads, pushes,
                 metaScheduled, fsVars, extVars, op, cdoc, result, locals, histVars>>

\* delay(100) ended.
CsDelay(c) ==
  /\ MicrotasksDrained
  /\ pc[c] = "cs_delay"
  /\ CsLoop(c)
  /\ UNCHANGED <<disableS3, sqlite, closed, localFiles, prepareFiles, uploads, pushes,
                 metaScheduled, fsVars, extVars, op, cdoc, result, locals, histVars>>

\* Promise.all settled: when a presence promise rejected, closeStorage
\* rejects; else this._closed = true, and this._ext.close() is awaited.
CsAll(c) ==
  /\ pc[c] = "cs_all"
  /\ awaited[c] \in Settled
  /\ IF awaited[c] = "rejected"
     THEN /\ Return(c, "error")
          /\ closed' = closed
     ELSE /\ closed' = TRUE
          /\ pc' = [pc EXCEPT ![c] = "cs_ext"]
          /\ result' = result
  /\ awaited' = [awaited EXCEPT ![c] = "none"]
  /\ UNCHANGED <<disableS3, sqlite, localFiles, prepareFiles, uploads, pushes,
                 metaScheduled, fsVars, extVars, op, cdoc, locals, histVars>>

\* this._ext.close() ended; this._pruner.close() is awaited.
CsExt(c) ==
  /\ MicrotasksDrained
  /\ pc[c] = "cs_ext"
  /\ pc' = [pc EXCEPT ![c] = "cs_pruner"]
  /\ UNCHANGED <<disableS3, sqlite, closed, localFiles, prepareFiles, uploads, pushes,
                 metaScheduled, fsVars, extVars, op, cdoc, result, awaited, locals,
                 histVars>>

\* this._pruner.close() ended: closeStorage resolves.
CsPruner(c) ==
  /\ MicrotasksDrained
  /\ pc[c] = "cs_pruner"
  /\ Return(c, "ok")
  /\ UNCHANGED <<disableS3, sqlite, closed, localFiles, prepareFiles, uploads, pushes,
                 metaScheduled, fsVars, extVars, op, cdoc, awaited, locals, histVars>>

\* Caller c invokes markAsChanged(d) and sees it return or throw.
CallMarkAsChanged(c, d) ==
  /\ MicrotasksDrained
  /\ pc[c] = "idle"
  /\ op' = [op EXCEPT ![c] = "markAsChanged"]
  /\ cdoc' = [cdoc EXCEPT ![c] = d]
  /\ markAsChanged(d)
  /\ Return(c, IF markAsChangedThrows(d) THEN "AfterClose" ELSE "ok")
  /\ UNCHANGED <<disableS3, sqlite, closed, prepareFiles, pushes, metaScheduled, fsVars,
                 extVars, awaited, locals, need, overlap, prior>>

\* Caller c invokes markAsEdited(d).
CallMarkAsEdited(c, d) ==
  /\ MicrotasksDrained
  /\ pc[c] = "idle"
  /\ op' = [op EXCEPT ![c] = "markAsEdited"]
  /\ cdoc' = [cdoc EXCEPT ![c] = d]
  /\ markAsEdited(d)
  /\ Return(c, "ok")
  /\ UNCHANGED <<disableS3, sqlite, closed, localFiles, prepareFiles, uploads, pushes,
                 fsVars, extVars, awaited, locals, histVars>>

(***************************************************************************)
(* backupSqliteDatabase(src, dest)                                         *)
(*   pc        : position in the function                                  *)
(*   dest      : the file at dest: "none", "stale" (left by an earlier     *)
(*               process), "partial", "complete"                           *)
(*   db        : "null", "open", "unopened" (the open failed), "closed"    *)
(*   success   : the local of that name                                    *)
(*   remaining : the local of that name (-1: not known yet)                *)
(*   pages     : pages of src                                              *)
(*   left      : backup.remaining (-1: not known yet)                      *)
(*   failed    : backup.failed                                             *)
(*   restarts, busy : restarts and transient errors met so far             *)
(*   thrown    : the error the function is throwing, "" if none            *)
(***************************************************************************)
NoBackup ==
  [pc |-> "idle", dest |-> "none", db |-> "null", success |-> FALSE,
   remaining |-> -1, pages |-> 1, left |-> -1, failed |-> FALSE,
   restarts |-> 0, busy |-> 0, thrown |-> ""]

\* PAGES_TO_BACKUP_PER_STEP, in its own unit.
PAGES_TO_BACKUP_PER_STEP == 1

\* The state of the manager, which backupSqliteDatabase does not touch.
ManagerUnchanged ==
  UNCHANGED <<disableS3, closed, localFiles, prepareFiles, uploads, pushes,
              metaScheduled, fsVars, extVars, callerVars, histVars>>

\* backupSqliteDatabase(src, dest) is called, src having `pages` pages:
\* db = null, success = false.  What an earlier call left at dest is
\* still there.
CallBackup(pages) ==
  /\ sqlite.pc \in {"idle", "returned", "thrown"}
  /\ sqlite' = [NoBackup EXCEPT !.pc = "remove", !.pages = pages,
                               !.dest = IF sqlite.dest = "none" THEN "none" ELSE "stale"]
  /\ ManagerUnchanged

\* await fse.remove(dest)
BkRemove ==
  /\ sqlite.pc = "remove"
  /\ sqlite' = [sqlite EXCEPT !.pc = "open", !.dest = "none"]
  /\ ManagerUnchanged

\* db = new sqlite3.Database(dest, cb): db is assigned at once; the open
\* succeeds, creating the file, or its callback carries an error.
BkOpen ==
  /\ sqlite.pc = "open"
  /\ \/ sqlite' = [sqlite EXCEPT !.pc = "pragma", !.db = "open", !.dest = "partial"]
     \/ \E created \in BOOLEAN :
          sqlite' = [sqlite EXCEPT !.pc = "close", !.db = "unopened",
                                   !.dest = IF created THEN "partial" ELSE "none",
                                   !.thrown = "open"]
  /\ ManagerUnchanged

\* db.exec("PRAGMA ..."), then db.backup(src, ...): remaining = -1.
BkPragma ==
  /\ sqlite.pc = "pragma"
  /\ \/ sqlite' = [sqlite EXCEPT !.pc = "step", !.remaining = -1, !.left = -1]
     \/ sqlite' = [sqlite EXCEPT !.pc = "close", !.thrown = "exec"]
  /\ ManagerUnchanged

\* What backup.remaining is after a step that copied pages.
LeftAfterCopy ==
  LET before == IF sqlite.left = -1 THEN sqlite.pages ELSE sqlite.left IN
  IF before > PAGES_TO_BACKUP_PER_STEP THEN before - PAGES_TO_BACKUP_PER_STEP ELSE 0

\* One pass of the loop whose transient errors never end.
BkStepAlwaysBusy ==
  /\ sqlite.pc = "step"
  /\ \/ sqlite' = [sqlite EXCEPT !.remaining = sqlite.left, !.left = LeftAfterCopy,
                     !.pc = IF LeftAfterCopy = 0 THEN "close" ELSE "delay",
                     !.success = (LeftAfterCopy = 0),
                     !.dest = IF LeftAfterCopy = 0 THEN "complete" ELSE "partial"]
     \/ /\ sqlite.left >= 0
        /\ sqlite.left < sqlite.pages
        /\ sqlite.restarts < MaxRestarts
        /\ sqlite' = [sqlite EXCEPT !.remaining = sqlite.left, !.left = sqlite.pages,
                                    !.restarts = sqlite.restarts + 1, !.pc = "delay"]
     \/ sqlite' = [sqlite EXCEPT !.remaining = sqlite.left,
                                 !.busy = Min(sqlite.busy + 1, MaxBusy), !.pc = "delay"]
     \/ sqlite' = [sqlite EXCEPT !.remaining = sqlite.left, !.failed = TRUE,
                                 !.pc = "close", !.thrown = "internal copy failed"]
  /\ ManagerUnchanged

\* One pass of the loop: remaining = backup.remaining, then
\* backup.step(PAGES_TO_BACKUP_PER_STEP) ends.  It copied pages (and
\* completed the backup if none is left); or a writer made the engine
\* restart the copy, so that backup.remaining grew; or the step met a
\* transient error (busy, locked), which is caught; or the error came with
\* backup.failed, and the function throws.
BkStep ==
  /\ sqlite.pc = "step"
  /\ \/ sqlite' = [sqlite EXCEPT !.remaining = sqlite.left, !.left = LeftAfterCopy,
                     !.pc = IF LeftAfterCopy = 0 THEN "close" ELSE "delay",
                     !.success = (LeftAfterCopy = 0),
                     !.dest = IF LeftAfterCopy = 0 THEN "complete" ELSE "partial"]
     \/ /\ sqlite.left >= 0
        /\ sqlite.left < sqlite.pages
        /\ sqlite.restarts < MaxRestarts
        /\ sqlite' = [sqlite EXCEPT !.remaining = sqlite.left, !.left = sqlite.pages,
                                    !.restarts = sqlite.restarts + 1, !.pc = "delay"]
     \/ /\ sqlite.busy < MaxBusy
        /\ sqlite' = [sqlite EXCEPT !.remaining = sqlite.left,
                                    !.busy = sqlite.busy + 1, !.pc = "delay"]
     \/ sqlite' = [sqlite EXCEPT !.remaining = sqlite.left, !.failed = TRUE,
                                 !.pc = "close", !.thrown = "internal copy failed"]
  /\ ManagerUnchanged

\* await delay(PAUSE_BETWEEN_BACKUP_STEPS_IN_MS)
BkDelay ==
  /\ sqlite.pc = "delay"
  /\ sqlite' = [sqlite EXCEPT !.pc = "step"]
  /\ ManagerUnchanged

\* finally that leaves the copy of a failed backup where it is.
BkCloseKeepsPartial ==
  /\ sqlite.pc = "close"
  /\ sqlite' = [sqlite EXCEPT !.db = IF sqlite.db = "open" THEN "closed" ELSE sqlite.db,
                  !.pc = IF sqlite.success THEN "returned" ELSE "thrown"]
  /\ ManagerUnchanged

\* finally: db.close(), when db is set (the error of closing a database
\* that never opened is caught); then, unless success, the copy is to be
\* removed.
BkClose ==
  /\ sqlite.pc = "close"
  /\ sqlite' = [sqlite EXCEPT !.db = IF sqlite.db = "open" THEN "closed" ELSE sqlite.db,
                  !.pc = IF sqlite.success THEN "returned" ELSE "cleanup"]
  /\ ManagerUnchanged

\* finally: fse.remove(dest); the error is thrown on.
BkCleanup ==
  /\ sqlite.pc = "cleanup"
  /\ sqlite' = [sqlite EXCEPT !.dest = "none", !.pc = "thrown"]
  /\ ManagerUnchanged

(***************************************************************************)
(* The state after construction.  The store, the worker directory and the  *)
(* docs root may hold what an earlier run of the worker left there; the    *)
(* directory's docMD5 is the digest of the remote object, and a -hash file *)
(* holds the digest the local file had when it was last in sync.           *)
(***************************************************************************)
InitManager ==
  /\ closed = FALSE
  /\ sqlite = NoBackup
  /\ localFiles = [d \in DocIds |-> "none"]
  /\ prepareFiles = {}
  /\ uploads = [d \in DocIds |-> IdleOp]
  /\ pushes = [i \in Invocations |-> IdlePush]
  /\ metaScheduled = {}
  /\ backupFile = [d \in DocIds |-> NoFile]
  /\ replacingFile = [d \in DocIds |-> NoFile]
  /\ op = [c \in Callers |-> "none"]
  /\ pc = [c \in Callers |-> "idle"]
  /\ cdoc = [c \in Callers |-> CHOOSE d \in Docs : TRUE]
  /\ result = [c \in Callers |-> "none"]
  /\ awaited = [c \in Callers |-> "none"]
  /\ locals = [c \in Callers |-> NoLocals]
  /\ unpushed = [d \in DocIds |-> FALSE]
  /\ marked = {}
  /\ removed = {}
  /\ need = [c \in Callers |-> FALSE]
  /\ credit = [i \in Invocations |-> {}]
  /\ overlap = [c \in Callers |-> FALSE]
  /\ prior = [c \in Callers |-> NoFile]

\* What the docs root and the store hold at the start: each document of
\* Docs locally and remotely with a content of localInit and remoteInit
\* (absentInit: what the directory says of a document with no remote
\* object), the source documents with the last content.
InitStore(localInit, remoteInit, absentInit, forkInit, versionInit) ==
  /\ localFile \in [Paths -> {NoFile} \cup Contents]
  /\ remote \in [Keys \cup ForkDocs \cup NewForkDocs \cup VersionKeys ->
                   {NoFile} \cup Contents]
  /\ \A d \in Docs : localFile[d] \in localInit
  /\ \A d \in Docs : remote[d] \in (IF disableS3 THEN {NoFile} ELSE remoteInit)
  /\ \A k \in SourceDocs : localFile[k] = IF disableS3 THEN MaxContent ELSE NoFile
  /\ \A k \in SourceDocs : remote[k] = IF disableS3 THEN NoFile ELSE MaxContent
  /\ \A d \in DocIds \ Docs : localFile[d] = NoFile
  /\ \A d \in NewForkDocs : remote[d] = NoFile
  /\ \A d \in ForkDocs : remote[d] \in (IF disableS3 THEN {NoFile} ELSE forkInit)
  /\ \A k \in VersionKeys : remote[k] \in (IF disableS3 THEN {NoFile} ELSE versionInit)
  /\ docMD5 \in [DocIds -> {NullMD5, DELETED_TOKEN} \cup {checksumFile(x) : x \in Contents}]
  /\ \A d \in Docs :
       IF remote[d] = NoFile
       THEN docMD5[d] \in absentInit /\ (disableS3 => docMD5[d] = NullMD5)
       ELSE docMD5[d] = checksumFile(remote[d])
  /\ \A d \in ForkDocs :
       docMD5[d] = IF remote[d] = NoFile THEN NullMD5 ELSE checksumFile(remote[d])
  /\ \A d \in DocIds \ (Docs \cup ForkDocs) : docMD5[d] = NullMD5

\* The same, every local file that has a remote object having its -hash
\* file, as after a push or a download.
InitEnvAll(localInit, remoteInit, absentInit, forkInit, versionInit) ==
  /\ InitStore(localInit, remoteInit, absentInit, forkInit, versionInit)
  /\ hashFile = [d \in DocIds |->
                   IF d \in Docs /\ localFile[d] # NoFile /\ remote[d] # NoFile
                   THEN checksumFile(localFile[d]) ELSE NullMD5]

\* The same, with no fork in the store and no version with a known id.
InitEnv(localInit, remoteInit, absentInit) ==
  InitEnvAll(localInit, remoteInit, absentInit, {NoFile}, {NoFile})

(***************************************************************************)
(* The steps of the environment and of the push worker.                    *)
(***************************************************************************)
\* Callers that invoke every method / flushDoc only, in Spec.
Workers == {"c1"}
Flushers == {"c2"}

Init ==
  /\ disableS3 = FALSE
  /\ InitManager
  /\ InitEnv({NoFile, 1}, {NoFile, 1}, {NullMD5})

Next ==
  \/ \E d \in Docs : MarkAsChanged(d)
  \/ \E d \in Docs : EngineEdit(d)
  \/ Tick
  \/ PrepareToCloseStorage
  \/ \E d \in Docs : StartPush(d)
  \/ \E i \in Invocations : PushBackup(i)
  \/ \E i \in Invocations : PushUpload(i)
  \/ \E i \in Invocations : PushCleanup(i)
  \/ \E c \in Callers : CallerReset(c)
  \/ \E c \in Callers, d \in Docs : CallFlushDoc(c, d)
  \/ \E c \in Callers : FlushWake(c)
  \/ \E c \in Callers : FlushDocReturn(c)
  \/ \E c \in Workers, d \in Docs : CallCloseDocument(c, d)
  \/ \E c \in Workers : CloseAwaitDone(c)
  \/ \E c \in Workers : CloseDocumentReturn(c)
  \/ \E c \in Workers, d \in Docs : CallPrepareLocalDoc(c, d, "")
  \/ \E c \in Workers : PrepCheck(c)
  \/ \E c \in Workers : PrepFinish(c)
  \/ \E c \in Workers : EnsDir(c)
  \/ \E c \in Workers : EnsExists(c)
  \/ \E c \in Workers : EnsBackup(c)
  \/ \E c \in Workers : EnsHash(c)
  \/ \E c \in Workers : EnsRemove(c)
  \/ \E c \in Workers : FetchExists(c)
  \/ \E c \in Workers : FetchDownload(c)
  \/ \E c \in Workers, d \in Docs, src \in {""} \cup SourceDocs : CallReplace(c, d, src, "")
  \/ \E c \in Workers : ReplFlushed(c)
  \/ \E c \in Workers : ReplRmTmp(c)
  \/ \E c \in Workers : ReplExists(c)
  \/ \E c \in Workers : ReplMove(c)
  \/ \E c \in Workers : ReplFetched(c)
  \/ \E c \in Workers : ReplRmHash(c)
  \/ \E c \in Workers : ReplRestore(c)
  \/ \E c \in Workers : ReplRmTmpErr(c)
  \/ \E c \in Workers : ReplRmTmp2(c)
  \/ \E c \in Workers : ReplDone(c)
  \/ \E c \in Workers, d \in Docs, deletePermanently \in BOOLEAN :
       CallDeleteDoc(c, d, deletePermanently)
  \/ \E c \in Workers : DelClosed(c)
  \/ \E c \in Workers : DelRemote(c)
  \/ \E c \in Workers : DelLocal(c)
  \/ \E c \in Workers : DelHash(c)

\* Uploads: one caller invoking every method, one invoking flushDoc, the
\* engine and the push worker, with S3.
Spec == Init /\ [][Next]_vars

InitPrepare ==
  /\ disableS3 \in BOOLEAN
  /\ InitManager
  /\ InitEnv({NoFile} \cup Contents, {NoFile, 1}, {NullMD5, DELETED_TOKEN})

NextPrepare ==
  \/ \E d \in Docs : MarkAsChanged(d)
  \/ Tick
  \/ \E d \in Docs : StartPush(d)
  \/ \E i \in Invocations : PushBackup(i)
  \/ \E i \in Invocations : PushUpload(i)
  \/ \E i \in Invocations : PushCleanup(i)
  \/ \E c \in Callers : CallerReset(c)
  \/ \E c \in Callers : FlushWake(c)
  \/ \E c \in Callers, d \in Docs : CallPrepareLocalDoc(c, d, "")
  \/ \E c \in Callers : CloseAwaitDone(c)
  \/ \E c \in Callers : PrepCheck(c)
  \/ \E c \in Callers : PrepFinish(c)
  \/ \E c \in Callers : EnsDir(c)
  \/ \E c \in Callers : EnsLocal(c)
  \/ \E c \in Callers : EnsExists(c)
  \/ \E c \in Callers : EnsBackup(c)
  \/ \E c \in Callers : EnsHash(c)
  \/ \E c \in Callers : EnsRemove(c)
  \/ \E c \in Callers : FetchExists(c)
  \/ \E c \in Callers : FetchDownload(c)

\* Opening: two callers invoking prepareLocalDoc, the engine and the push
\* worker, with and without S3.
SpecPrepare == InitPrepare /\ [][NextPrepare]_vars

InitFork ==
  /\ disableS3 \in BOOLEAN
  /\ InitManager
  /\ InitEnvAll({NoFile, 1}, {NoFile, 1}, {NullMD5}, {NoFile, MaxContent}, {NoFile})

NextFork ==
  \/ \E d \in ForkDocs : MarkAsChanged(d)
  \/ \E d \in ForkDocs : EngineEdit(d)
  \/ Tick
  \/ \E d \in ForkDocs : StartPush(d)
  \/ \E i \in Invocations : PushBackup(i)
  \/ \E i \in Invocations : PushUpload(i)
  \/ \E i \in Invocations : PushCleanup(i)
  \/ \E c \in Workers : CallerReset(c)
  \/ \E c \in Workers : FlushWake(c)
  \/ \E c \in Workers, d \in ForkDocs, userId \in {""} \cup Users :
       CallPrepareLocalDoc(c, d, userId)
  \/ \E c \in Workers : CloseAwaitDone(c)
  \/ \E c \in Workers : PrepCheck(c)
  \/ \E c \in Workers : PrepFinish(c)
  \/ \E c \in Workers : EnsDir(c)
  \/ \E c \in Workers : EnsLocal(c)
  \/ \E c \in Workers : EnsTrunk(c)
  \/ \E c \in Workers : EnsCopy(c)
  \/ \E c \in Workers : EnsExists(c)
  \/ \E c \in Workers : EnsBackup(c)
  \/ \E c \in Workers : EnsHash(c)
  \/ \E c \in Workers : EnsRemove(c)
  \/ \E c \in Workers : FetchExists(c)
  \/ \E c \in Workers : FetchTrunk(c)
  \/ \E c \in Workers : FetchDownload(c)

\* Forks: one caller opening a fork of "doc" for several users, the engine
\* and the push worker, with and without S3.
SpecFork == InitFork /\ [][NextFork]_vars

InitShare ==
  /\ disableS3 \in BOOLEAN
  /\ InitManager
  /\ InitEnv({NoFile, 1}, {NoFile, 1}, {NullMD5})

NextShare ==
  \/ \E d \in Docs : MarkAsChanged(d)
  \/ Tick
  \/ \E d \in Docs : StartPush(d)
  \/ \E i \in Invocations : PushBackup(i)
  \/ \E i \in Invocations : PushUpload(i)
  \/ \E i \in Invocations : PushCleanup(i)
  \/ \E c \in Callers : CallerReset(c)
  \/ \E c \in Callers : FlushWake(c)
  \/ \E c \in Callers, d \in Docs : CallPrepareLocalDoc(c, d, "")
  \/ \E c \in Callers : CloseAwaitDone(c)
  \/ \E c \in Callers : PrepCheck(c)
  \/ \E c \in Callers : PrepFinish(c)
  \/ \E c \in Callers, d \in Docs : CallGetCopy(c, d)
  \/ \E c \in Callers : GetCopyEnsured(c)
  \/ \E c \in Callers : GetCopyBackup(c)
  \/ \E c \in Callers : EnsDir(c)
  \/ \E c \in Callers : EnsLocal(c)
  \/ \E c \in Callers : EnsExists(c)
  \/ \E c \in Callers : EnsBackup(c)
  \/ \E c \in Callers : EnsHash(c)
  \/ \E c \in Callers : FetchExists(c)
  \/ \E c \in Callers : FetchDownload(c)

\* Sharing of the presence promise: two callers invoking prepareLocalDoc
\* and getCopy on one document, the engine marking it changed and the
\* push worker, with and without S3.  The local file, never edited here,
\* has the digest of the remote object.
SpecShare == InitShare /\ [][NextShare]_vars

InitBackup ==
  /\ disableS3 = FALSE
  /\ InitManager
  /\ InitEnv({1}, {NoFile}, {NullMD5})

NextBackup ==
  \/ \E pages \in 1..MaxPages : CallBackup(pages)
  \/ BkRemove
  \/ BkOpen
  \/ BkPragma
  \/ BkStep
  \/ BkDelay
  \/ BkClose
  \/ BkCleanup

\* backupSqliteDatabase called again and again on databases of several
\* sizes, the engine restarting, failing transiently and failing.
SpecBackup == InitBackup /\ [][NextBackup]_vars

\* The same, every step of the function being taken once it can be: the
\* engine's callbacks are called and the timers of the loop expire.
SpecBackupLive ==
  /\ SpecBackup
  /\ WF_vars(BkRemove) /\ WF_vars(BkOpen) /\ WF_vars(BkPragma)
  /\ WF_vars(BkStep) /\ WF_vars(BkDelay) /\ WF_vars(BkClose) /\ WF_vars(BkCleanup)

InitLocal ==
  /\ disableS3 = TRUE
  /\ InitManager
  /\ InitEnv({NoFile, 1, MaxContent}, {NoFile}, {NullMD5})

NextLocal ==
  \/ \E d \in Docs \cup ForkDocs : EngineEdit(d)
  \/ \E c \in Workers : CallerReset(c)
  \/ \E c \in Workers, userId \in {""} \cup Users,
        d \in Docs \cup ForkDocs \cup SnapshotDocs \cup ForkSnapshotDocs :
       CallPrepareLocalDoc(c, d, userId)
  \/ \E c \in Workers : CloseAwaitDone(c)
  \/ \E c \in Workers : PrepCheck(c)
  \/ \E c \in Workers : PrepFinish(c)
  \/ \E c \in Workers, d \in Docs : CallDeleteDoc(c, d, TRUE)
  \/ \E c \in Workers : DelClosed(c)
  \/ \E c \in Workers : DelLocal(c)
  \/ \E c \in Workers : DelHash(c)
  \/ \E c \in Workers : EnsDir(c)
  \/ \E c \in Workers : EnsLocal(c)
  \/ \E c \in Workers : EnsTrunk(c)
  \/ \E c \in Workers : EnsCopy(c)

\* Without S3: one caller opening a document, its fork and their
\* versions for several users, and deleting the document, with the engine.
SpecLocal == InitLocal /\ [][NextLocal]_vars

InitFetch ==
  /\ disableS3 = FALSE
  /\ InitManager
  /\ InitEnvAll({NoFile}, {NoFile, 1}, {NullMD5}, {NoFile, 1}, {NoFile})

NextFetch ==
  \/ \E d \in ForkDocs : MarkAsChanged(d)
  \/ \E d \in ForkDocs : EngineEdit(d)
  \/ Tick
  \/ \E d \in ForkDocs : StartPush(d)
  \/ \E i \in Invocations : PushBackup(i)
  \/ \E i \in Invocations : PushUpload(i)
  \/ \E i \in Invocations : PushCleanup(i)
  \/ \E c \in Workers : CallerReset(c)
  \/ \E c \in Workers : FlushWake(c)
  \/ \E c \in Workers, d \in ForkDocs \cup NewForkDocs, userId \in {""} \cup Users :
       CallPrepareLocalDoc(c, d, userId)
  \/ \E c \in Workers : CloseAwaitDone(c)
  \/ \E c \in Workers : PrepCheck(c)
  \/ \E c \in Workers : PrepFinish(c)
  \/ \E c \in Workers : EnsDir(c)
  \/ \E c \in Workers : EnsExists(c)
  \/ \E c \in Workers : EnsBackup(c)
  \/ \E c \in Workers : EnsHash(c)
  \/ \E c \in Workers : EnsRemove(c)
  \/ \E c \in Workers : FetchExists(c)
  \/ \E c \in Workers : FetchTrunk(c)
  \/ \E c \in Workers : FetchDownload(c)

\* The fetch of forks: one caller opening, for several users, a fork of
\* "doc" and a fork of the new document, with the engine; S3 enabled.
SpecFetch == InitFetch /\ [][NextFetch]_vars

InitClose ==
  /\ disableS3 \in BOOLEAN
  /\ InitManager
  /\ InitEnvAll({NoFile, 1, MaxContent}, {NoFile, 1}, {NullMD5}, {NoFile}, {1})

NextClose ==
  \/ Tick
  \/ \E d \in Docs : StartPush(d)
  \/ \E i \in Invocations : PushBackup(i)
  \/ \E i \in Invocations : PushUpload(i)
  \/ \E i \in Invocations : PushCleanup(i)
  \/ \E c \in Callers : CallerReset(c)
  \/ \E c \in Callers : FlushWake(c)
  \/ \E c \in Flushers, d \in Docs \cup SnapshotDocs : CallMarkAsChanged(c, d)
  \/ \E c \in Flushers, d \in Docs \cup SnapshotDocs : CallMarkAsEdited(c, d)
  \/ \E c \in Flushers, d \in Docs \cup SnapshotDocs : CallPrepareLocalDoc(c, d, "")
  \/ \E c \in Flushers : CloseAwaitDone(c)
  \/ \E c \in Flushers : PrepCheck(c)
  \/ \E c \in Flushers : PrepFinish(c)
  \/ \E c \in Flushers : EnsDir(c)
  \/ \E c \in Flushers : EnsLocal(c)
  \/ \E c \in Flushers : EnsExists(c)
  \/ \E c \in Flushers : EnsBackup(c)
  \/ \E c \in Flushers : EnsHash(c)
  \/ \E c \in Flushers : EnsRemove(c)
  \/ \E c \in Flushers : FetchExists(c)
  \/ \E c \in Flushers : FetchDownload(c)
  \/ \E c \in Workers : CallCloseStorage(c)
  \/ \E c \in Workers : CsWaited(c)
  \/ \E c \in Workers : CsMeta(c)
  \/ \E c \in Workers : CsDelay(c)
  \/ \E c \in Workers : CsAll(c)
  \/ \E c \in Workers : CsExt(c)
  \/ \E c \in Workers : CsPruner(c)

\* Closing: one caller invoking closeStorage, another opening documents
\* and snapshots, both reporting changes; the engine and the push worker;
\* with and without S3.
SpecClose == InitClose /\ [][NextClose]_vars

InitCloseWait ==
  /\ disableS3 = FALSE
  /\ InitManager
  /\ InitEnv({NoFile, 1}, {NoFile, 1}, {NullMD5})

NextCloseWait ==
  \/ \E d \in Docs : MarkAsChanged(d)
  \/ Tick
  \/ \E d \in Docs : StartPush(d)
  \/ \E i \in Invocations : PushBackup(i)
  \/ \E i \in Invocations : PushUpload(i)
  \/ \E i \in Invocations : PushCleanup(i)
  \/ \E c \in Callers : CallerReset(c)
  \/ \E c \in Callers : FlushWake(c)
  \/ \E c \in Flushers, d \in Docs : CallPrepareLocalDoc(c, d, "")
  \/ \E c \in Flushers : CloseAwaitDone(c)
  \/ \E c \in Flushers : PrepCheck(c)
  \/ \E c \in Flushers : PrepFinish(c)
  \/ \E c \in Flushers, d \in Docs : CallGetCopy(c, d)
  \/ \E c \in Flushers : GetCopyEnsured(c)
  \/ \E c \in Flushers : GetCopyBackup(c)
  \/ \E c \in Flushers : EnsDir(c)
  \/ \E c \in Flushers : EnsExists(c)
  \/ \E c \in Flushers : EnsBackup(c)
  \/ \E c \in Flushers : EnsHash(c)
  \/ \E c \in Flushers : FetchExists(c)
  \/ \E c \in Flushers : FetchDownload(c)
  \/ \E c \in Workers : CallCloseStorage(c)
  \/ \E c \in Workers : CsWaited(c)
  \/ \E c \in Workers : CsMeta(c)
  \/ \E c \in Workers : CsDelay(c)
  \/ \E c \in Workers : CsAll(c)
  \/ \E c \in Workers : CsExt(c)
  \/ \E c \in Workers : CsPruner(c)

\* Closing while documents are opened and copied: one caller invoking
\* closeStorage, another prepareLocalDoc and getCopy, the engine and the
\* push worker, with S3.
SpecCloseWait == InitCloseWait /\ [][NextCloseWait]_vars

InitDelete ==
  /\ disableS3 \in BOOLEAN
  /\ InitManager
  /\ InitEnv({NoFile, 1}, {NoFile, 1}, {NullMD5, DELETED_TOKEN})

NextDelete ==
  \/ \E d \in Docs : EngineEdit(d)
  \/ Tick
  \/ \E d \in Docs : StartPush(d)
  \/ \E i \in Invocations : PushBackup(i)
  \/ \E i \in Invocations : PushUpload(i)
  \/ \E i \in Invocations : PushCleanup(i)
  \/ \E c \in Workers : CallerReset(c)
  \/ \E c \in Workers : FlushWake(c)
  \/ \E c \in Workers, d \in Docs : CallMarkAsChanged(c, d)
  \/ \E c \in Workers, d \in Docs : CallPrepareLocalDoc(c, d, "")
  \/ \E c \in Workers : CloseAwaitDone(c)
  \/ \E c \in Workers : PrepCheck(c)
  \/ \E c \in Workers : PrepFinish(c)
  \/ \E c \in Workers : EnsDir(c)
  \/ \E c \in Workers : EnsLocal(c)
  \/ \E c \in Workers : EnsExists(c)
  \/ \E c \in Workers : EnsBackup(c)
  \/ \E c \in Workers : EnsHash(c)
  \/ \E c \in Workers : EnsRemove(c)
  \/ \E c \in Workers : FetchExists(c)
  \/ \E c \in Workers : FetchDownload(c)
  \/ \E c \in Workers, d \in Docs, deletePermanently \in BOOLEAN :
       CallDeleteDoc(c, d, deletePermanently)
  \/ \E c \in Workers : DelClosed(c)
  \/ \E c \in Workers : DelRemote(c)
  \/ \E c \in Workers : DelLocal(c)
  \/ \E c \in Workers : DelHash(c)

\* Deleting: one task that opens, marks and deletes a document, so that
\* nothing else operates on the document while deleteDoc runs; the engine
\* and the push worker; with and without S3.
SpecDelete == InitDelete /\ [][NextDelete]_vars

InitReplace ==
  /\ disableS3 \in BOOLEAN
  /\ InitManager
  /\ InitEnvAll({NoFile, 1}, {NoFile, 1}, {NullMD5}, {NoFile}, {NoFile, MaxContent})

NextReplace ==
  \/ Tick
  \/ \E d \in Docs : StartPush(d)
  \/ \E i \in Invocations : PushBackup(i)
  \/ \E i \in Invocations : PushUpload(i)
  \/ \E i \in Invocations : PushCleanup(i)
  \/ \E c \in Callers : CallerReset(c)
  \/ \E c \in Workers : FlushWake(c)
  \/ \E c \in Workers, d \in Docs : CallMarkAsChanged(c, d)
  \/ \E c \in Workers, d \in Docs, src \in {""} \cup Docs \cup SourceDocs,
        snapshotId \in {""} \cup SnapshotIds : CallReplace(c, d, src, snapshotId)
  \/ \E c \in Workers : ReplFlushed(c)
  \/ \E c \in Workers : ReplLocal(c)
  \/ \E c \in Workers : ReplCopy(c)
  \/ \E c \in Workers : ReplRmTmp(c)
  \/ \E c \in Workers : ReplExists(c)
  \/ \E c \in Workers : ReplMove(c)
  \/ \E c \in Workers : FetchExists(c)
  \/ \E c \in Workers : FetchDownload(c)
  \/ \E c \in Workers : ReplFetched(c)
  \/ \E c \in Workers : ReplRmHash(c)
  \/ \E c \in Workers : ReplRestore(c)
  \/ \E c \in Workers : ReplRmTmpErr(c)
  \/ \E c \in Workers : ReplRmTmp2(c)
  \/ \E c \in Workers : ReplDone(c)
  \/ \E c \in Flushers : CallCloseStorage(c)
  \/ \E c \in Flushers : CsWaited(c)
  \/ \E c \in Flushers : CsMeta(c)
  \/ \E c \in Flushers : CsAll(c)
  \/ \E c \in Flushers : CsExt(c)
  \/ \E c \in Flushers : CsPruner(c)

\* Replacing: one task that reports changes of a document and replaces it
\* by another document or by one of its versions, while no engine writes
\* it; another task invoking closeStorage; the push worker; with and
\* without S3.
SpecReplace == InitReplace /\ [][NextReplace]_vars

InitTorn ==
  /\ disableS3 = FALSE
  /\ InitManager
  /\ InitStore({NoFile, 1, MaxContent}, {NoFile, 1}, {NullMD5, DELETED_TOKEN},
               {NoFile}, {NoFile})
  /\ hashFile \in [DocIds -> {NullMD5} \cup {checksumFile(x) : x \in Contents}]
  /\ \A d \in DocIds :
       (d \notin Docs \/ localFile[d] = NoFile) => hashFile[d] = NullMD5

NextOpen ==
  \/ \E d \in Docs : EngineEdit(d)
  \/ Tick
  \/ \E d \in Docs : StartPush(d)
  \/ \E i \in Invocations : PushBackup(i)
  \/ \E i \in Invocations : PushUpload(i)
  \/ \E i \in Invocations : PushCleanup(i)
  \/ \E c \in Workers : CallerReset(c)
  \/ \E c \in Workers : FlushWake(c)
  \/ \E c \in Workers, d \in Docs : CallMarkAsChanged(c, d)
  \/ \E c \in Workers, d \in Docs : CallCloseDocument(c, d)
  \/ \E c \in Workers : CloseAwaitDone(c)
  \/ \E c \in Workers : CloseDocumentReturn(c)
  \/ \E c \in Workers, d \in Docs : CallPrepareLocalDoc(c, d, "")
  \/ \E c \in Workers : PrepCheck(c)
  \/ \E c \in Workers : PrepFinish(c)
  \/ \E c \in Workers : EnsDir(c)
  \/ \E c \in Workers : EnsExists(c)
  \/ \E c \in Workers : EnsBackup(c)
  \/ \E c \in Workers : EnsHash(c)
  \/ \E c \in Workers : EnsRemove(c)
  \/ \E c \in Workers : FetchExists(c)
  \/ \E c \in Workers : FetchDownload(c)

\* Opening what an earlier run left: one task that opens, changes and
\* closes a document whose local file, -hash file, remote object and
\* directory entry may disagree; the engine and the push worker; with S3.
SpecOpen == InitTorn /\ [][NextOpen]_vars

InitInvalid ==
  /\ disableS3 \in BOOLEAN
  /\ InitManager
  /\ InitEnv({NoFile, 1, MaxContent}, {NoFile, 1}, {NullMD5})

NextInvalid ==
  \/ Tick
  \/ \E d \in Docs : StartPush(d)
  \/ \E i \in Invocations : PushBackup(i)
  \/ \E i \in Invocations : PushUpload(i)
  \/ \E i \in Invocations : PushCleanup(i)
  \/ \E c \in Workers : CallerReset(c)
  \/ \E c \in Workers : FlushWake(c)
  \/ \E c \in Workers, d \in Docs \cup InvalidDocs : CallPrepareLocalDoc(c, d, "")
  \/ \E c \in Workers : CloseAwaitDone(c)
  \/ \E c \in Workers : PrepCheck(c)
  \/ \E c \in Workers : PrepFinish(c)
  \/ \E c \in Workers, d \in Docs \cup InvalidDocs : CallGetCopy(c, d)
  \/ \E c \in Workers : GetCopyEnsured(c)
  \/ \E c \in Workers : GetCopyBackup(c)
  \/ \E c \in Workers : EnsDir(c)
  \/ \E c \in Workers : EnsLocal(c)
  \/ \E c \in Workers : EnsExists(c)
  \/ \E c \in Workers : EnsBackup(c)
  \/ \E c \in Workers : EnsHash(c)
  \/ \E c \in Workers : EnsRemove(c)
  \/ \E c \in Workers : FetchExists(c)
  \/ \E c \in Workers : FetchDownload(c)
  \/ \E c \in Workers, d \in Docs \cup InvalidDocs, src \in {""} \cup SourceDocs :
       CallReplace(c, d, src, "")
  \/ \E c \in Workers : ReplFlushed(c)
  \/ \E c \in Workers : ReplLocal(c)
  \/ \E c \in Workers : ReplCopy(c)
  \/ \E c \in Workers : ReplRmTmp(c)
  \/ \E c \in Workers : ReplExists(c)
  \/ \E c \in Workers : ReplMove(c)
  \/ \E c \in Workers : ReplFetched(c)
  \/ \E c \in Workers : ReplRmHash(c)
  \/ \E c \in Workers : ReplRestore(c)
  \/ \E c \in Workers : ReplRmTmpErr(c)
  \/ \E c \in Workers : ReplRmTmp2(c)
  \/ \E c \in Workers : ReplDone(c)
  \/ \E c \in Workers, d \in Docs \cup InvalidDocs : CallDeleteDoc(c, d, TRUE)
  \/ \E c \in Workers : DelClosed(c)
  \/ \E c \in Workers : DelRemote(c)
  \/ \E c \in Workers : DelLocal(c)
  \/ \E c \in Workers : DelHash(c)

\* Ids: one task that opens, copies, replaces and deletes a document and
\* an id that docIdRegex does not match; the push worker; with and
\* without S3.
SpecInvalid == InitInvalid /\ [][NextInvalid]_vars

(***************************************************************************)
(* Properties of the upload pipeline.                                      *)
(***************************************************************************)
\* A push of d ends in this step, and it succeeded.
PushSucceeds(d) ==
  \E i \in InFlight(d) :
    pushes[i].pc = "cleanup" /\ pushes[i].ok /\ pushes'[i].pc = "idle"

\* A push of d ends in this step, and it failed.
PushFails(d) ==
  \E i \in InFlight(d) :
    pushes'[i].pc = "idle" /\ ~(pushes[i].pc = "cleanup" /\ pushes[i].ok)

\* An invocation of _pushToS3(d) begins in this step.
PushStarts(d) == \E i \in Invocations : i \notin InFlight(d) /\ pushes'[i].doc = d

\* C1: in every reachable state and for every docId d, at most one
\* invocation of _pushToS3(d) is in flight, whatever markAsChanged, flushDoc,
\* closeDocument, replace, prepareToCloseStorage and failed pushes do.
C1_SinglePush == \A d \in Docs : Cardinality(InFlight(d)) <= 1

\* A push of d is in flight, a change arrived during it, a retry came
\* before it, and a flushDoc(d) waits for it.
C1_Witness ==
  \E d \in Docs :
    /\ InFlight(d) # {}
    /\ uploads[d].changed
    /\ uploads[d].failures > 0
    /\ \E c \in Callers : pc[c] = "flush_wait" /\ cdoc[c] = d

\* C2: markAsChanged(d) calls that arrive while a push of d is running lead
\* to exactly one further push of d after the running one: when the run
\* ends one operation is pending and waits for its start (never dropped: a
\* change no successful later push has covered keeps d pending), and a push
\* only starts when a change is still uncovered (never duplicated: a run
\* that saw no change and succeeded leaves nothing to start).
C2_Successor ==
  /\ [](\A d \in Docs : unpushed[d] => hasPendingOperation(uploads, d))
  /\ [][\A d \in Docs :
          /\ (uploads[d].state = "running" /\ uploads[d].changed
                /\ uploads'[d].state # "running")
               => (uploads'[d].state \in {"scheduled", "retrying"}
                     /\ ~uploads'[d].changed)
          /\ (uploads[d].state \in {"scheduled", "retrying"})
               => (uploads'[d].state \in {"scheduled", "retrying"} \/ PushStarts(d))
          /\ (PushSucceeds(d) /\ ~uploads[d].changed) => uploads'[d].state = "idle"
          /\ PushStarts(d) => unpushed[d]]_vars

\* A change arrived while a push of d is running: the run no longer
\* covers every change, and a follow-up is asked for.
C2_Witness ==
  \E d \in Docs, i \in Invocations :
    /\ i \in InFlight(d)
    /\ uploads[d].state = "running"
    /\ uploads[d].changed
    /\ "all" \notin credit[i]
    /\ unpushed[d]

\* C3: flushDoc(d) resolves only in a state where isSaved(d) holds, and an
\* upload that is scheduled when flushDoc tests isSaved is expedited: its
\* timer is cleared.
C3_FlushSaved ==
  [][\A c \in Callers :
       /\ (pc[c] # "flush_done" /\ pc'[c] = "flush_done")
            => ~hasPendingOperation(uploads', cdoc'[c])
       /\ (pc[c] # "flush_wait" /\ pc'[c] = "flush_wait"
             /\ uploads[cdoc'[c]].state \in {"scheduled", "retrying"})
            => uploads'[cdoc'[c]].timer = 0]_vars

\* Two flushDoc(d) waited for the same run: one has resolved, the other
\* is about to test isSaved.
C3_Witness ==
  \E c \in Callers, o \in Callers :
    /\ pc[c] = "flush_done"
    /\ op[c] = "flushDoc"
    /\ pc[o] = "flush_wake"
    /\ cdoc[o] = cdoc[c]
    /\ isSaved(cdoc[c])

\* The remote object of d, the -hash file and the directory agree.
InSync(d) ==
  /\ remote[d] # NoFile
  /\ hashFile[d] = checksumFile(remote[d])
  /\ docMD5[d] = checksumFile(remote[d])

\* flushDoc(d) of caller c has resolved, and no markAsChanged(d) came since.
FlushedClean(c, d) ==
  /\ cdoc[c] = d
  /\ \/ pc[c] = "flush_done"
     \/ pc[c] = "returned" /\ op[c] = "flushDoc" /\ result[c] = "ok"
  /\ d \in marked
  /\ ~unpushed[d]

\* replace(d) has fetched the new content and not yet marked d as changed.
Replacing(d) ==
  \E c \in Callers :
    op[c] = "replace" /\ cdoc[c] = d /\ pc[c] \in {"repl_fetched", "repl_rm_hash"}

\* C4 as stated: for every d that was marked changed at least once, after
\* flushDoc(d) resolves with no intervening markAsChanged(d), the digest of
\* the remote object of d equals the -hash file and the directory's docMD5
\* (the digest of the snapshot that was uploaded).
C4_FlushInSync ==
  \A c \in Callers, d \in Docs : FlushedClean(c, d) => InSync(d)

\* C4, amended: the same, unless a replace(d) is between its download and
\* its markAsChanged, or deleteDoc(d) has removed something of d since the
\* last markAsChanged(d).
C4_FlushInSyncUnlessReplacing ==
  \A c \in Callers, d \in Docs :
    (FlushedClean(c, d) /\ ~Replacing(d) /\ d \notin removed) => InSync(d)

\* A flushDoc(d) has resolved after an upload of edited content.
C4_Witness ==
  \E c \in Callers, d \in Docs :
    /\ FlushedClean(c, d)
    /\ pc[c] = "flush_done"
    /\ ~Replacing(d)
    /\ d \notin removed
    /\ remote[d] = MaxContent
    /\ localFiles[d] # "none"

\* C5: every markAsChanged(d) that happened before an invocation of
\* flushDoc(d) is covered when that flushDoc resolves: a push of d that
\* started after the markAsChanged has succeeded, also when the
\* markAsChanged arrived while an earlier push of d was running.
C5_FlushCovers ==
  [][\A c \in Callers :
       (pc[c] # "flush_done" /\ pc'[c] = "flush_done") => ~need'[c]]_vars

\* flushDoc(d) was invoked after a change that arrived during a running
\* push: that push does not cover the change, and the caller waits.
C5_Witness ==
  \E c \in Callers, i \in Invocations :
    /\ pc[c] = "flush_wait"
    /\ need[c]
    /\ i \in InFlight(cdoc[c])
    /\ c \notin credit[i]
    /\ "all" \notin credit[i]

\* C6: markAsChanged(d) calls that follow each other within the debounce
\* window while no push of d is running leave exactly one push pending:
\* each call leaves d scheduled, a full window away, with no follow-up asked
\* for and no push started; the one run they lead to, if it succeeds and no
\* change arrives during it, leaves nothing pending.
C6_Debounce ==
  [][\A d \in Docs :
       /\ (markAsChanged(d) /\ uploads[d].state \in {"idle", "scheduled"})
            => /\ uploads'[d].state = "scheduled"
               /\ uploads'[d].timer = DelayTicks
               /\ ~uploads'[d].changed
               /\ pushes' = pushes
       /\ (PushStarts(d) /\ uploads[d].state = "scheduled")
            => (uploads[d].timer = 0 /\ ~uploads'[d].changed)
       /\ (PushSucceeds(d) /\ ~uploads[d].changed) => isSaved(d)']_vars

\* A second markAsChanged(d) arrived within the window of the first: d is
\* scheduled a full window away and was already marked.
C6_Witness ==
  \E d \in Docs :
    /\ uploads[d].state = "scheduled"
    /\ uploads[d].timer = DelayTicks
    /\ unpushed[d]
    /\ localFiles[d] = "true"
    /\ InFlight(d) = {}

\* C7: when a push of d fails (backup, upload, or d is being materialized)
\* d stays pending: the key awaits a retry, isSaved(d) is false, and the
\* uncovered change stays recorded; only a successful push ends a pending
\* operation.
C7_FailureKeepsPending ==
  [][\A d \in Docs :
       /\ PushFails(d) => (uploads'[d].state = "retrying" /\ ~isSaved(d)'
                             /\ unpushed'[d] = unpushed[d])
       /\ (d \in prepareFiles /\ uploads[d].state \in {"scheduled", "retrying"}
             /\ uploads[d].timer = 0 /\ uploads'[d].failures # uploads[d].failures)
            => (uploads'[d].state = "retrying" /\ pushes' = pushes)
       /\ (~isSaved(d) /\ isSaved(d)') => PushSucceeds(d)]_vars

\* A retry of a failed push of d is running.
C7_Witness ==
  \E d \in Docs :
    /\ uploads[d].state = "running"
    /\ uploads[d].failures > 0
    /\ ~isSaved(d)
    /\ unpushed[d]

(***************************************************************************)
(* Properties of prepareLocalDoc.                                          *)
(***************************************************************************)
\* Caller c is materializing d: between the reentrancy test and finally.
Materializing(c, d) ==
  /\ op[c] = "prepareLocalDoc"
  /\ cdoc[c] = d
  /\ pc[c] \in {"ens_dir", "ens_local", "ens_exists", "ens_backup", "ens_hash",
                "ens_remove", "fetch_exists", "fetch_download", "ensure_await"}

\* prepareLocalDoc of caller c passes the reentrancy test in this step.
Materializes(c) ==
  /\ op[c] = "prepareLocalDoc"
  /\ pc[c] = "flush_done"
  /\ cdoc[c] \notin prepareFiles
  /\ cdoc[c] \in prepareFiles'

\* C8 as stated: a prepareLocalDoc(d) invoked while an earlier
\* prepareLocalDoc(d) has not completed fails with ConcurrentPrepare,
\* wherever the earlier call stands when the later one arrives.
C8_ConcurrentPrepare ==
  \A c \in Callers :
    (op[c] = "prepareLocalDoc" /\ pc[c] = "returned" /\ overlap[c])
      => result[c] = "ConcurrentPrepare"

\* C9: prepareLocalDoc(d) starts materializing d (adds d to _prepareFiles
\* and goes on to the worker directory and the local file) only when the
\* earlier presence promise of d has settled (nobody is materializing d),
\* the cache entry of d is dropped and no upload of d is pending: the
\* changes reported before the call are pushed.
C9_CloseBeforePrepare ==
  [][\A c \in Callers :
       Materializes(c)
         => /\ \A o \in Callers : ~Materializing(o, cdoc[c])
            /\ localFiles[cdoc[c]] = "none"
            /\ awaited[c] = "none"
            /\ isSaved(cdoc[c])
            /\ ~unpushed[cdoc[c]]]_vars

\* A caller that arrived while d was being materialized and had changes to
\* wait for is now materializing d itself.
C9_Witness ==
  \E c \in Callers, d \in Docs :
    /\ Materializing(c, d)
    /\ pc[c] = "ens_dir"
    /\ overlap[c]
    /\ d \in marked
    /\ remote[d] # NoFile
    /\ hashFile[d] = checksumFile(remote[d])

\* C10: for d without a fork component, prepareLocalDoc(d) returns true
\* exactly when d had to be created: no local file was accepted and there
\* is no remote object of d; it returns false when a local file was
\* accepted or the remote object was downloaded, and then the file exists.
C10_IsNew ==
  \A c \in Callers :
    (/\ op[c] = "prepareLocalDoc"
     /\ pc[c] = "returned"
     /\ result[c] \in {"true", "false"}
     /\ parseUrlId(cdoc[c]).forkId = "")
      => /\ result[c] = "true"
              <=> (~locals[c].accepted /\ ~locals[c].fetched /\ remote[cdoc[c]] = NoFile)
         /\ result[c] = "false"
              => (locals[c].accepted \/ (locals[c].sawRemote /\ locals[c].fetched))

\* Two calls have returned false: one after a download of the remote
\* object, one after accepting the local file.
C10_Witness ==
  \E c \in Callers, o \in Callers :
    /\ op[c] = "prepareLocalDoc" /\ pc[c] = "returned" /\ result[c] = "false"
    /\ locals[c].fetched
    /\ op[o] = "prepareLocalDoc" /\ pc[o] = "returned" /\ result[o] = "false"
    /\ locals[o].accepted

(***************************************************************************)
(* Properties of forks.                                                    *)
(***************************************************************************)
\* prepareLocalDoc of caller c settles in this step.
PrepReturns(c) ==
  /\ op[c] = "prepareLocalDoc"
  /\ pc[c] = "ensure_await"
  /\ pc'[c] = "returned"

\* The call of c that settles is for a fork, by the fork's user, with S3;
\* it found no local file, the store holds no object of the fork but holds
\* the trunk, and the call does not fail.
ForkFromTrunk(c) ==
  /\ PrepReturns(c)
  /\ cdoc[c] \in ForkDocs
  /\ locals[c].userId = parseUrlId(cdoc[c]).forkUserId
  /\ ~disableS3
  /\ prior[c] = NoFile
  /\ remote[cdoc[c]] = NoFile
  /\ remote[parseUrlId(cdoc[c]).trunkId] # NoFile
  /\ result'[c] # "error"

StorageClosed ==
  /\ closed
  /\ \A c \in Callers : pc[c] \notin {"cs_ext", "cs_pruner"}

\* Caller c invokes markAsChanged in this step, for a docId without
\* snapshotId, after closeStorage has completed.
MarksAfterClose(c) ==
  /\ pc[c] = "idle"
  /\ op'[c] = "markAsChanged"
  /\ parseUrlId(cdoc'[c]).snapshotId = ""
  /\ StorageClosed

\* C12 as stated: markAsChanged(d) after closeStorage has completed raises
\* AfterClose and schedules no upload, for every d without snapshotId,
\* with or without remote storage.
C12_AfterCloseRaises ==
  [][\A c \in Callers :
       MarksAfterClose(c) => (result'[c] = "AfterClose" /\ uploads' = uploads)]_vars

\* C12, amended: markAsChanged(d) after closeStorage has completed
\* schedules no upload, for every d without snapshotId; it raises
\* AfterClose when remote storage is enabled and returns normally when
\* remote storage is disabled.
C12_AfterCloseRaisesWithS3 ==
  [][\A c \in Callers :
       MarksAfterClose(c) =>
         /\ result'[c] = IF disableS3 THEN "ok" ELSE "AfterClose"
         /\ uploads' = uploads]_vars

\* markAsChanged was called after closeStorage had completed, with S3,
\* and raised AfterClose.
C12_Witness ==
  \E c \in Callers :
    /\ op[c] = "markAsChanged" /\ pc[c] = "returned"
    /\ parseUrlId(cdoc[c]).snapshotId = ""
    /\ StorageClosed
    /\ ~disableS3
    /\ result[c] = "AfterClose"
\* C13: for a docId with a snapshotId, markAsChanged and markAsEdited
\* leave the presence cache, the upload scheduler and the metadata queue
\* unchanged and raise nothing, also after closeStorage.
C13_SnapshotNoEffect ==
  [][\A c \in Callers :
       (/\ pc[c] = "idle"
        /\ op'[c] \in {"markAsChanged", "markAsEdited"}
        /\ parseUrlId(cdoc'[c]).snapshotId # "")
       => /\ localFiles' = localFiles
          /\ uploads' = uploads
          /\ metaScheduled' = metaScheduled
          /\ result'[c] = "ok"]_vars

\* markAsChanged of a snapshot id returned normally after closeStorage
\* had completed, with S3, the id having an entry in the presence cache
\* that says the document is new.
C13_Witness ==
  \E c \in Callers :
    /\ op[c] = "markAsChanged" /\ pc[c] = "returned"
    /\ cdoc[c] \in SnapshotDocs
    /\ localFiles[cdoc[c]] = "false"
    /\ StorageClosed
    /\ ~disableS3
    /\ result[c] = "ok"
\* Caller c is inside closeStorage and leaves position p in this step.
CsLeaves(c, p) ==
  /\ op[c] = "closeStorage"
  /\ pc[c] = p
  /\ pc'[c] # p

C15_NoWorkAfterClose ==
  StorageClosed =>
    /\ ~needsUpdate
    /\ \A i \in Invocations : pushes[i].pc = "idle"
(***************************************************************************)
(* Properties of deleteDoc.                                                *)
(***************************************************************************)
\* Nothing of document d is left: no cache entry, no pending upload, no
\* remote object, the DELETED sentinel in the directory, no local file and
\* no -hash file.
Deleted(d) ==
  /\ localFiles[d] = "none"
  /\ isSaved(d)
  /\ remote[d] = NoFile
  /\ docMD5[d] = DELETED_TOKEN
  /\ localFile[d] = NoFile
  /\ hashFile[d] = NullMD5

\* C16: with S3 and nothing else operating on d, when deleteDoc(d, true)
\* has resolved nothing of d is left; from the removal of the remote
\* object on, no upload of d is pending or in flight.
C16_DeleteRemovesAll ==
  \A c \in Callers :
    (op[c] = "deleteDoc" /\ ~disableS3) =>
      /\ (pc[c] = "returned" /\ result[c] = "ok") => Deleted(cdoc[c])
      /\ (pc[c] \in {"del_remote", "del_local", "del_hash"}
           \/ (pc[c] = "returned" /\ result[c] = "ok"))
         => (isSaved(cdoc[c]) /\ InFlight(cdoc[c]) = {})

\* deleteDoc(d, true) has resolved for a document that had been opened,
\* changed and uploaded.
C16_Witness ==
  \E c \in Callers :
    /\ op[c] = "deleteDoc" /\ pc[c] = "returned" /\ result[c] = "ok"
    /\ ~disableS3
    /\ cdoc[c] \in marked
    /\ cdoc[c] \in removed
    /\ Deleted(cdoc[c])
\* C17: deleteDoc(d, false) fails with UnsupportedOp and changes nothing:
\* the document is neither closed nor flushed, and cache, scheduler,
\* store, directory and files are as they were.
C17_SoftDeleteUnsupported ==
  [][\A c \in Callers, d \in Docs :
       CallDeleteDoc(c, d, FALSE) =>
         /\ pc'[c] = "returned"
         /\ result'[c] = "UnsupportedOp"
         /\ UNCHANGED <<disableS3, sqlite, closed, localFiles, prepareFiles, uploads, pushes,
                        metaScheduled, fsVars, extVars>>]_vars

\* deleteDoc(d, false) has failed with UnsupportedOp for a document that
\* is open and has an upload pending.
C17_Witness ==
  \E c \in Callers :
    /\ op[c] = "deleteDoc" /\ pc[c] = "returned"
    /\ result[c] = "UnsupportedOp"
    /\ localFiles[cdoc[c]] = "true"
    /\ ~isSaved(cdoc[c])
    /\ remote[cdoc[c]] # NoFile
    /\ localFile[cdoc[c]] # NoFile
\* What a completed deleteDoc(d, true) leaves of d: no cache entry, no
\* upload, no local file, no -hash file and, with S3, no object and the
\* DELETED sentinel.
DeletedState(d) ==
  /\ localFiles[d] = "none" /\ isSaved(d)
  /\ localFile[d] = NoFile /\ hashFile[d] = NullMD5
  /\ disableS3 \/ (remote[d] = NoFile /\ docMD5[d] = DELETED_TOKEN)

\* Caller c takes a step of deleteDoc(d, true).
DeleteStep(c, d) ==
  \/ CallDeleteDoc(c, d, TRUE)
  \/ op[c] = "deleteDoc" /\ cdoc[c] = d /\ pc[c] # "returned" /\ pc'[c] # pc[c]

\* C18: deleteDoc(d, true) is idempotent: every step of a deleteDoc(d, true)
\* on a document in the state a completed deleteDoc leaves changes nothing
\* of the manager, the directory, the store or the files, and the call
\* ends as a no-op (or with the store's error when the DELETE fails).
C18_DeleteIdempotent ==
  [][\A c \in Callers, d \in Docs :
       (DeletedState(d) /\ DeleteStep(c, d)) =>
         /\ UNCHANGED <<disableS3, sqlite, closed, localFiles, prepareFiles, uploads, pushes,
                        metaScheduled, fsVars, extVars>>
         /\ pc'[c] = "returned" =>
              \/ result'[c] = "ok"
              \/ result'[c] = "error" /\ pc[c] = "del_remote"]_vars

\* A later deleteDoc(d, true) is about to ask the store to remove d: an
\* earlier deleteDoc has been to the store already, and nothing of d is
\* left in the cache, the directory or the store.
C18_Witness ==
  \E c \in Callers :
    /\ op[c] = "deleteDoc" /\ pc[c] = "del_remote"
    /\ ~disableS3
    /\ cdoc[c] \in marked
    /\ cdoc[c] \in removed
    /\ DeletedState(cdoc[c])
\* Caller c is in a replace that has moved the local file aside.
MovedAside(c) == op[c] = "replace" /\ prior[c] # NoFile

\* C19: when replace fails after moving the current local file aside
\* (nothing fetched, or markAsChanged throwing after closeStorage), the
\* local file has its prior content and there is no -replacing file when
\* replace rejects; and a replace that moved the file aside and did not
\* fetch the source, or could not mark the document, does reject.
C19_ReplaceRestores ==
  \A c \in Callers :
    (MovedAside(c) /\ pc[c] = "returned") =>
      \/ /\ result[c] = "error"
         /\ localFile[cdoc[c]] = prior[c]
         /\ replacingFile[cdoc[c]] = NoFile
      \/ /\ result[c] = "ok"
         /\ locals[c].fetched
         /\ locals[c].stage = 2
         /\ cdoc[c] \in marked

\* replace has rejected after it moved the file aside and fetched other
\* content: markAsChanged threw because closeStorage had completed, and
\* the prior content is back.
C19_Witness ==
  \E c \in Callers :
    /\ MovedAside(c) /\ pc[c] = "returned" /\ result[c] = "error"
    /\ locals[c].fetched
    /\ closed
    /\ localFile[cdoc[c]] = prior[c]
    /\ replacingFile[cdoc[c]] = NoFile
    /\ remote[ExtVersionKey(FetchSource(c), locals[c].snapshotId)] # prior[c]
\* Caller c is in a replace of its document by another document or by a
\* version, not by itself.
ReplacesContent(c) ==
  op[c] = "replace" /\ ~(FetchSource(c) = cdoc[c] /\ locals[c].snapshotId = "")

\* The content replace takes: the object of the source, or its version.
SourceContent(c) ==
  IF disableS3
  THEN localFile[FetchSource(c)]
  ELSE remote[ExtVersionKey(FetchSource(c), locals[c].snapshotId)]

\* After replace: the local file has the content of the source, no -hash
\* file of older content is left, the document was marked, and the
\* current remote object has that content.
Replaced(c) ==
  /\ localFile[cdoc[c]] = SourceContent(c)
  /\ hashFile[cdoc[c]] \in {NullMD5, checksumFile(localFile[cdoc[c]])}
  /\ cdoc[c] \in marked
  /\ cdoc[c] \in metaScheduled
  /\ remote[cdoc[c]] = localFile[cdoc[c]]
  /\ isSaved(cdoc[c])

\* C20: after a successful replace(d, {sourceDocId: s}) or
\* replace(d, {snapshotId: v}), d has the content of s (of version v), its
\* old -hash is invalidated, d was marked changed and edited, and the
\* current remote version of d has that content.
C20_ReplaceInstalls ==
  \A c \in Callers :
    (ReplacesContent(c) /\ pc[c] = "returned" /\ result[c] = "ok") => Replaced(c)

\* C20, with the remote store enabled.
C20_ReplaceInstallsWithS3 ==
  \A c \in Callers :
    (ReplacesContent(c) /\ pc[c] = "returned" /\ result[c] = "ok" /\ ~disableS3)
      => Replaced(c)

\* replace by a version has resolved for a document that had other
\* content, locally and in the store.
C20_Witness ==
  \E c \in Callers :
    /\ ReplacesContent(c) /\ pc[c] = "returned" /\ result[c] = "ok"
    /\ ~disableS3
    /\ locals[c].snapshotId # ""
    /\ prior[c] \notin {NoFile, localFile[cdoc[c]]}
    /\ Replaced(c)
\* Caller c takes a step of its own in replace while flushing: the call,
\* the test of the flush loop, or the step after the flush.
ReplaceFlushStep(c) ==
  /\ op'[c] = "replace"
  /\ pc[c] \in {"idle", "flush_wake", "flush_done"}
  /\ pc'[c] # pc[c]

\* C21: replace(d, options) whose source is d itself, with no snapshotId,
\* only flushes d: its steps leave the files, the presence cache and the
\* store as they are, schedule nothing, and it resolves after the flush.
C21_SelfReplaceNoOp ==
  [][\A c \in Callers :
       (ReplaceFlushStep(c) /\ ~ReplacesContent(c)' /\ locals'[c].stage = 1) =>
         /\ UNCHANGED <<closed, localFiles, prepareFiles, pushes, metaScheduled,
                        fsVars, extVars, marked>>
         /\ uploads' \in {uploads, expediteOperation(uploads, cdoc'[c])}
         /\ pc'[c] \in {"flush_wait", "flush_done", "returned"}
         /\ pc'[c] = "returned" => result'[c] = "ok"]_vars

\* replace(d, {sourceDocId: d}) has resolved after it flushed a change of
\* d: the store has the local content and nothing is pending.
C21_Witness ==
  \E c \in Callers :
    /\ op[c] = "replace" /\ ~ReplacesContent(c)
    /\ pc[c] = "returned" /\ result[c] = "ok"
    /\ cdoc[c] \in marked
    /\ localFile[cdoc[c]] # NoFile
    /\ remote[cdoc[c]] = localFile[cdoc[c]]
    /\ isSaved(cdoc[c])
\* The method of caller c was rejected because of the id.
RejectedInvalidDocId(c) ==
  \/ result[c] = "InvalidDocId"
  \/ result[c] = "error" /\ locals[c].err = "InvalidDocId"

\* The positions of a caller that has started a request to the directory,
\* the store or the file system.
AwaitsIO ==
  {"ens_dir", "ens_local", "ens_trunk", "ens_copy", "ens_exists", "ens_backup",
   "ens_hash", "ens_remove", "fetch_exists", "fetch_trunk", "fetch_download",
   "copy_backup", "repl_local", "repl_copy", "repl_rm_tmp", "repl_exists",
   "repl_move", "repl_rm_hash", "repl_restore", "repl_rm_tmp_err",
   "repl_rm_tmp2", "del_remote", "del_local", "del_hash"}

\* Caller c is in a method that forms a path from the id it was handed
\* (a replace of a document by itself forms none).
FormsPath(c) ==
  \/ op[c] \in {"prepareLocalDoc", "getCopy", "deleteDoc"}
  \/ op[c] = "replace" /\ (FetchSource(c) # cdoc[c] \/ locals[c].snapshotId # "")

\* C22: prepareLocalDoc, getCopy, replace and deleteDoc of an id that
\* docIdRegex does not match are rejected with InvalidDocId before any
\* request to the directory, the store or the file system.
C22_InvalidDocIdBeforeIO ==
  \A c \in Callers :
    (cdoc[c] \in InvalidDocs /\ FormsPath(c)) =>
      /\ pc[c] \notin AwaitsIO
      /\ docMD5[cdoc[c]] = NullMD5
      /\ pc[c] = "returned" => RejectedInvalidDocId(c)
\* The backups in progress whose destination is the -backup sidecar of d:
\* those of _pushToS3 and of the hash verification (getCopy's own backup
\* goes to a path named by a fresh UUID).
SidecarBackups(d) ==
  {i \in Invocations : pushes[i].pc = "backup" /\ pushes[i].doc = d}
    \cup {c \in Callers : pc[c] = "ens_backup" /\ cdoc[c] = d}

\* C23: no two backups of the same document that are in progress at the
\* same time have the same destination file.
C23_UniqueSidecar ==
  \A d \in Docs : Cardinality(SidecarBackups(d)) <= 1
\* The -backup sidecar of d is in use: a push is uploading it or about to
\* remove it, or the hash verification is about to read it.
SidecarInUse(d) ==
  \/ \E i \in Invocations :
       pushes[i].doc = d /\ pushes[i].pc \in {"upload", "cleanup"}
  \/ \E c \in Callers : cdoc[c] = d /\ pc[c] = "ens_hash"

\* C24: a backup sidecar is never left behind: the -backup file of a
\* document exists only while the push or the hash verification that made
\* it is in progress.
C24_NoSidecarLeft ==
  \A d \in Docs : backupFile[d] # NoFile => SidecarInUse(d)
\* The directory told caller c that its document is not active, or
\* belongs to another worker.
NotOwner(c) == locals[c].status \in {"inactive", "other"}

\* C25: when the worker directory reports the document inactive or owned
\* by another worker, ensure-present fails with NotOwner, and no step of
\* the call creates, changes or deletes a file or goes to the store.
C25_NotOwner ==
  [][\A c \in Callers :
       (NotOwner(c)' /\ pc'[c] # pc[c]) =>
         /\ locals'[c].err = "NotOwner"
         /\ pc'[c] \in {"ensure_await", "returned"}
         /\ pc'[c] = "ensure_await" => awaited'[c] = "rejected"
         /\ pc'[c] = "returned" => result'[c] = "error"
         /\ UNCHANGED <<fsVars, extVars>>]_vars

\* prepareLocalDoc has failed with NotOwner for a document that belongs
\* to another worker; its local file and its object are there, and the
\* store was not consulted.
C25_Witness ==
  \E c \in Callers :
    /\ op[c] = "prepareLocalDoc" /\ pc[c] = "returned" /\ result[c] = "error"
    /\ locals[c].status = "other" /\ locals[c].err = "NotOwner"
    /\ ~locals[c].sawRemote /\ ~locals[c].fetched
    /\ localFile[cdoc[c]] # NoFile
    /\ remote[cdoc[c]] # NoFile
    /\ localFiles[cdoc[c]] = "none"
\* C26: with S3, when the local file exists and the docMD5 the directory
\* gave is null or the DELETED sentinel, ensure-present reports the
\* document present with the local file as it is: no sidecar is made, no
\* file is changed or removed, and the store is not consulted.
C26_TrustLocal ==
  [][\A c \in Callers :
       (pc[c] = "ens_exists" /\ pc'[c] # pc[c]
          /\ localFile[cdoc[c]] # NoFile /\ ~IsDigest(locals[c].md5)) =>
         /\ pc'[c] = "ensure_await"
         /\ awaited'[c] = "true"
         /\ localFiles'[cdoc[c]] = "true"
         /\ ~locals'[c].sawRemote /\ ~locals'[c].fetched
         /\ UNCHANGED <<fsVars, extVars>>]_vars

\* prepareLocalDoc has returned false for a document that the directory
\* marks DELETED and that has a local file: the file is as it was, no
\* sidecar was made and the store was not asked.
C26_Witness ==
  \E c \in Callers :
    /\ op[c] = "prepareLocalDoc" /\ pc[c] = "returned" /\ result[c] = "false"
    /\ ~disableS3
    /\ locals[c].md5 = DELETED_TOKEN
    /\ locals[c].accepted /\ ~locals[c].sawRemote /\ ~locals[c].fetched
    /\ prior[c] # NoFile
    /\ localFile[cdoc[c]] = prior[c]
    /\ backupFile[cdoc[c]] = NoFile
\* The call of prepareLocalDoc by c found a local file whose digest is not
\* the docMD5 that the directory gave.
StaleOpen(c) ==
  /\ op[c] = "prepareLocalDoc"
  /\ ~disableS3
  /\ pc[c] \notin {"idle", "flush_wait", "flush_wake", "flush_done", "ens_dir"}
  /\ locals[c].status = "self"
  /\ IsDigest(locals[c].md5)
  /\ prior[c] # NoFile
  /\ checksumFile(prior[c]) # locals[c].md5

\* C27: with S3, when the local file exists and docMD5 is a digest other
\* than the local file's, the remote wins: the checksum step goes on to
\* remove the local file, the removal goes on to the fetch, and a
\* prepareLocalDoc that then returns without error has downloaded the
\* remote object, so that the local digest is the remote's; no step of the
\* opening schedules or starts an upload.
C27_RemoteWins ==
  [][\A c \in Callers :
       (StaleOpen(c) /\ pc'[c] # pc[c]) =>
         /\ pc[c] = "ens_hash" =>
               (pc'[c] = "ens_remove" \/ (pc'[c] = "ensure_await" /\ awaited'[c] = "rejected"))
         /\ pc[c] = "ens_remove" =>
               (localFile'[cdoc[c]] = NoFile /\ pc'[c] = "fetch_exists")
         /\ (pc'[c] = "returned" /\ result'[c] # "error") =>
               /\ result'[c] = "false"
               /\ locals'[c].fetched
               /\ localFile'[cdoc[c]] # NoFile
               /\ checksumFile(localFile'[cdoc[c]]) = checksumFile(remote'[cdoc[c]])
               /\ checksumFile(localFile'[cdoc[c]]) = locals'[c].md5
         /\ UNCHANGED <<uploads, pushes, extVars>>]_vars

\* prepareLocalDoc has returned after replacing a local file, whose digest
\* was not docMD5, by the remote object.
C27_Witness ==
  \E c \in Callers :
    /\ StaleOpen(c)
    /\ pc[c] = "returned" /\ result[c] = "false"
    /\ locals[c].fetched
    /\ localFile[cdoc[c]] = remote[cdoc[c]]
    /\ localFile[cdoc[c]] # prior[c]
    /\ isSaved(cdoc[c])
\* The call of prepareLocalDoc by c found a local file, the directory
\* holds a docMD5, and the -hash file is missing or holds another value.
HashTorn(c) ==
  /\ op[c] = "prepareLocalDoc"
  /\ ~disableS3
  /\ pc[c] \in {"ens_exists", "ens_backup", "ens_hash", "ens_remove",
                "fetch_exists", "fetch_download"}
  /\ IsDigest(locals[c].md5)
  /\ prior[c] # NoFile
  /\ hashFile[cdoc[c]] # locals[c].md5

\* The step of c treats the local file as stale: the existence test goes
\* on to the checksum, the checksum to the removal, the removal deletes
\* the file and goes on to the fetch, and a download that succeeds
\* installs the remote object.
DiscardsAndRefetches(c) ==
  /\ pc[c] = "ens_exists" => pc'[c] = "ens_backup"
  /\ pc[c] = "ens_hash" =>
       (pc'[c] = "ens_remove" \/ (pc'[c] = "ensure_await" /\ awaited'[c] = "rejected"))
  /\ pc[c] = "ens_remove" => (localFile'[cdoc[c]] = NoFile /\ pc'[c] = "fetch_exists")
  /\ (pc[c] = "fetch_download" /\ awaited'[c] = "true") =>
       (locals'[c].fetched /\ localFile'[cdoc[c]] = remote[cdoc[c]]
          /\ hashFile'[cdoc[c]] = locals[c].md5)

\* C28 as stated: when the directory holds a docMD5 for d and the local
\* file exists but its -hash file is missing or holds another value,
\* prepareLocalDoc(d) discards the local file and fetches the document
\* from the store.
C28_TornIsStale ==
  [][\A c \in Callers :
       (HashTorn(c) /\ pc'[c] # pc[c]) => DiscardsAndRefetches(c)]_vars

\* C28, amended: the same when, besides, the digest of the local content
\* differs from docMD5.
C28_TornAndDifferentIsStale ==
  [][\A c \in Callers :
       (HashTorn(c) /\ checksumFile(prior[c]) # locals[c].md5 /\ pc'[c] # pc[c]) =>
         DiscardsAndRefetches(c)]_vars

\* A local file without its -hash file, and with a digest other than
\* docMD5, has been removed and the remote object is being downloaded.
C28_Witness ==
  \E c \in Callers :
    /\ HashTorn(c)
    /\ checksumFile(prior[c]) # locals[c].md5
    /\ hashFile[cdoc[c]] = NullMD5
    /\ pc[c] = "fetch_download"
    /\ locals[c].sawRemote
    /\ localFile[cdoc[c]] = NoFile
    /\ remote[cdoc[c]] # NoFile
\* The call of prepareLocalDoc by c found a local file whose digest is the
\* docMD5 that the directory gave.
MatchingOpen(c) ==
  /\ op[c] = "prepareLocalDoc"
  /\ ~disableS3
  /\ pc[c] \notin {"idle", "flush_wait", "flush_wake", "flush_done", "ens_dir"}
  /\ locals[c].status = "self"
  /\ IsDigest(locals[c].md5)
  /\ prior[c] # NoFile
  /\ checksumFile(prior[c]) = locals[c].md5

\* C29: reopening with a matching hash performs no transfer: every step
\* of a prepareLocalDoc(d) that found the local digest equal to docMD5
\* keeps the local file, leaves the store and the uploads queue alone and
\* never enters the fetch; the call, unless the backup for the checksum
\* failed, returns false with isSaved(d) true.
C29_ReopenNoTransfer ==
  [][\A c \in Callers :
       (MatchingOpen(c) /\ pc[c] # "returned" /\ pc'[c] # pc[c]) =>
         /\ localFile'[cdoc[c]] = prior[c]
         /\ UNCHANGED <<uploads, pushes, extVars, hashFile>>
         /\ pc'[c] \notin {"ens_remove", "fetch_exists", "fetch_trunk", "fetch_download"}
         /\ ~locals'[c].fetched /\ ~locals'[c].sawRemote
         /\ (pc'[c] = "returned" /\ result'[c] # "error") =>
               (result'[c] = "false" /\ isSaved(cdoc[c])')]_vars

\* A document that was changed, pushed and closed has been opened again:
\* prepareLocalDoc returned false, the local file is the one that was
\* pushed, nothing was fetched and nothing is scheduled.
C29_Witness ==
  \E c \in Callers :
    /\ MatchingOpen(c)
    /\ pc[c] = "returned" /\ result[c] = "false"
    /\ cdoc[c] \in marked
    /\ ~unpushed[cdoc[c]]
    /\ locals[c].accepted /\ ~locals[c].fetched /\ ~locals[c].sawRemote
    /\ localFile[cdoc[c]] = prior[c]
    /\ remote[cdoc[c]] = prior[c]
    /\ hashFile[cdoc[c]] = docMD5[cdoc[c]]
    /\ isSaved(cdoc[c])
\* Caller c is in _fetchFromS3 for a fork, on behalf of prepareLocalDoc.
FetchesFork(c) ==
  /\ op[c] = "prepareLocalDoc"
  /\ pc[c] \in {"fetch_exists", "fetch_trunk"}
  /\ FetchTrunkId(c) # ""

\* The step of c ends the fetch with an error of the given kind; nothing
\* is downloaded.
FetchFails(c, kind) ==
  /\ pc'[c] = "ensure_await" /\ awaited'[c] = "rejected"
  /\ locals'[c].err = kind
  /\ ~locals'[c].fetched
  /\ UNCHANGED <<fsVars, extVars>>

\* The step of c ends the fetch because the call to the store failed.
StoreFails(c) == FetchFails(c, locals[c].err)

\* C30: in _fetchFromS3 for a fork.  When the fork has no remote object:
\* a caller who may not create the fork fails with ForkForbidden and
\* nothing is downloaded; else a fork of NEW_DOCUMENT_CODE is reported
\* new without a download; else the trunk is looked up, and a trunk with
\* no remote object fails with DocNotFound.  When the fork has a remote
\* object the permission is not looked at: the download follows.
C30_ForkFetch ==
  [][\A c \in Callers :
       (FetchesFork(c) /\ pc'[c] # pc[c]) =>
         LET fork == WithoutSnapshot(cdoc[c])
             allowed == MayCreateFork(cdoc[c], locals[c].userId)
         IN
         /\ (pc[c] = "fetch_exists" /\ remote[fork] = NoFile /\ ~allowed) =>
               (FetchFails(c, "ForkForbidden") \/ StoreFails(c))
         /\ (pc[c] = "fetch_exists" /\ remote[fork] = NoFile /\ allowed
               /\ FetchTrunkId(c) = NEW_DOCUMENT_CODE) =>
               \/ StoreFails(c)
               \/ /\ pc'[c] = "ensure_await" /\ awaited'[c] = "false"
                  /\ ~locals'[c].fetched
                  /\ UNCHANGED <<fsVars, extVars>>
         /\ (pc[c] = "fetch_exists" /\ remote[fork] = NoFile /\ allowed
               /\ FetchTrunkId(c) # NEW_DOCUMENT_CODE) =>
               \/ StoreFails(c)
               \/ pc'[c] = "fetch_trunk" /\ UNCHANGED <<fsVars, extVars, locals>>
         /\ (pc[c] = "fetch_trunk" /\ remote[FetchTrunkId(c)] = NoFile) =>
               (FetchFails(c, "DocNotFound") \/ StoreFails(c))
         /\ (pc[c] = "fetch_exists" /\ remote[fork] # NoFile) =>
               \/ StoreFails(c)
               \/ pc'[c] = "fetch_download" /\ locals'[c].sawRemote
                    /\ locals'[c].err = locals[c].err]_vars

\* prepareLocalDoc of a fork that has no remote object, by a user who is
\* not the fork's, has failed with ForkForbidden although the trunk was
\* there; nothing was downloaded.
C30_Witness ==
  \E c \in Callers :
    /\ op[c] = "prepareLocalDoc" /\ pc[c] = "returned" /\ result[c] = "error"
    /\ locals[c].err = "ForkForbidden"
    /\ locals[c].userId \in Users
    /\ ~MayCreateFork(cdoc[c], locals[c].userId)
    /\ cdoc[c] \in ForkDocs
    /\ remote[cdoc[c]] = NoFile
    /\ remote[parseUrlId(cdoc[c]).trunkId] # NoFile
    /\ localFile[cdoc[c]] = NoFile
    /\ ~locals[c].fetched /\ ~locals[c].sawRemote
\* The step of c in the disableS3 branch of ensure-present settles the
\* presence with v, touching no file.
LocalSettles(c, v) ==
  /\ pc'[c] = "ensure_await" /\ awaited'[c] = v
  /\ UNCHANGED <<fsVars, extVars>>

\* The steps of the disableS3 branch: a local file is present; a missing
\* document that is no fork is absent; a missing fork that the caller may
\* not create, or of which a snapshot is asked, ends as `refused`; else
\* the trunk is looked up, a missing trunk is absent, and the trunk's
\* file is copied to the fork's path.
LocalPresence(c, refused) ==
  LET parts == parseUrlId(cdoc[c])
      allowed == MayCreateFork(cdoc[c], locals[c].userId)
      there == localFile[cdoc[c]] # NoFile
  IN
  /\ (pc[c] = "ens_local" /\ there) => LocalSettles(c, "true")
  /\ (pc[c] = "ens_local" /\ ~there /\ parts.forkId = "") => LocalSettles(c, "false")
  /\ (pc[c] = "ens_local" /\ ~there /\ parts.forkId # ""
        /\ (~allowed \/ parts.snapshotId # "")) => LocalSettles(c, refused)
  /\ (pc[c] = "ens_local" /\ ~there /\ parts.forkId # ""
        /\ allowed /\ parts.snapshotId = "") =>
        (pc'[c] = "ens_trunk" /\ UNCHANGED <<fsVars, extVars>>)
  /\ (pc[c] = "ens_trunk" /\ localFile[parts.trunkId] = NoFile) => LocalSettles(c, "false")
  /\ (pc[c] = "ens_trunk" /\ localFile[parts.trunkId] # NoFile) =>
        (pc'[c] = "ens_copy" /\ UNCHANGED <<fsVars, extVars>>)
  /\ (pc[c] = "ens_copy" /\ localFile[parts.trunkId] # NoFile) =>
        /\ pc'[c] = "ensure_await" /\ awaited'[c] = "true"
        /\ localFile' = [localFile EXCEPT ![cdoc[c]] = localFile[parts.trunkId]]

\* Caller c takes a step of the disableS3 branch.
LocalStep(c) ==
  /\ disableS3
  /\ pc[c] \in {"ens_local", "ens_trunk", "ens_copy"}
  /\ pc'[c] # pc[c]

NoPushWhilePreparing ==
  \A d \in Docs : d \in prepareFiles => InFlight(d) = {}

\* C32: no push of d is in its backup or upload phase while d is in
\* prepareFiles.  While d stays in prepareFiles no step starts a push of
\* d or changes its remote object, and a pending d stays pending for the
\* scheduler's retry; d enters prepareFiles only when no push of d is
\* running.
C32_PushExcludesPrepare ==
  /\ []NoPushWhilePreparing
  /\ [][\A d \in Docs :
         /\ (d \in prepareFiles /\ d \in prepareFiles') =>
               /\ UNCHANGED <<pushes, remote, docMD5>>
               /\ hasPendingOperation(uploads, d) => hasPendingOperation(uploads', d)
               /\ uploads'[d].state # "running"
         /\ (d \notin prepareFiles /\ d \in prepareFiles') =>
               (InFlight(d) = {} /\ ~hasPendingOperation(uploads, d))]_vars

\* A push of d was invoked while d was being prepared: it was rejected
\* and d waits for the retry, with its change still to be pushed.
C32_Witness ==
  \E d \in Docs, c \in Callers :
    /\ d \in prepareFiles
    /\ op[c] = "prepareLocalDoc" /\ cdoc[c] = d
    /\ pc[c] \in {"ens_dir", "ens_exists", "ens_backup", "ens_hash", "fetch_exists"}
    /\ uploads[d].state = "retrying"
    /\ uploads[d].failures >= 1
    /\ unpushed[d]
    /\ InFlight(d) = {}
    /\ \A i \in Invocations : pushes[i] = IdlePush
\* The step is one of the push run by invocation i.
PushStep(i) == pushes[i].pc # "idle" /\ pushes'[i] # pushes[i]

\* C33: the steps of one push of d are ordered snapshot, upload with the
\* update of both hashes, pruner notification, sidecar removal.  The
\* pruner is told only by the step in which the upload of the sidecar
\* succeeds, never after a failed backup or a failed upload; docMD5[d]
\* changes only in that step, to the digest of the sidecar; the sidecar is
\* removed by the last step.
C33_PushOrder ==
  [][\A i \in Invocations :
       PushStep(i) =>
         LET d == pushes[i].doc
             uploaded == /\ pushes[i].pc = "upload"
                         /\ backupFile[d] # NoFile
                         /\ pushes'[i].ok
                         /\ remote'[d] = backupFile[d]
                         /\ docMD5'[d] = checksumFile(backupFile[d])
                         /\ hashFile'[d] = checksumFile(backupFile[d])
         IN
         /\ pushes[i].pc = "backup" =>
               \/ pushes'[i].pc = "upload" /\ backupFile'[d] = localFile[d]
               \/ pushes'[i] = IdlePush /\ backupFile'[d] = NoFile
         /\ pushes[i].pc = "upload" => pushes'[i].pc = "cleanup"
         /\ pushes[i].pc = "cleanup" =>
               (pushes'[i] = IdlePush /\ backupFile'[d] = NoFile)
         /\ (pushes'[i].pruned /\ ~pushes[i].pruned) => uploaded
         /\ (pushes[i].pc = "upload" /\ pushes'[i].ok) => pushes'[i].pruned
         /\ docMD5'[d] # docMD5[d] => uploaded
         /\ pushes[i].pc # "cleanup" => ~pushes[i].pruned]_vars

\* A push has uploaded its sidecar and told the pruner: the remote object
\* and both hashes are the sidecar's, which is still to be removed.
C33_Witness ==
  \E i \in Invocations :
    LET d == pushes[i].doc IN
    /\ pushes[i].pc = "cleanup"
    /\ pushes[i].ok /\ pushes[i].pruned
    /\ backupFile[d] # NoFile
    /\ remote[d] = backupFile[d]
    /\ docMD5[d] = checksumFile(backupFile[d])
    /\ hashFile[d] = docMD5[d]
\* backupSqliteDatabase has returned dest / has thrown.
BackupReturned == sqlite.pc = "returned"
BackupThrown == sqlite.pc = "thrown"

\* The two ways backupSqliteDatabase ends, and the removal of a stale file
\* at its start.
BackupEnds ==
  /\ BackupReturned =>
       /\ sqlite.success /\ sqlite.left = 0 /\ ~sqlite.failed
       /\ sqlite.dest = "complete"
       /\ sqlite.db = "closed"
       /\ sqlite.thrown = ""
  /\ BackupThrown =>
       /\ ~sqlite.success
       /\ sqlite.thrown # ""
       /\ sqlite.dest = "none"
       /\ sqlite.db # "open"
  /\ sqlite.pc \notin {"idle", "remove"} => sqlite.dest # "stale"

C35_LoopTerminates ==
  /\ (sqlite.pc = "step") ~> (BackupReturned \/ sqlite.failed)
  /\ [][(sqlite.pc = "step" /\ sqlite.left >= 0 /\ sqlite'.left > sqlite.left) =>
          (sqlite'.pc = "delay" /\ sqlite'.thrown = "" /\ ~sqlite'.failed)]_vars

\* backupSqliteDatabase has returned after restarts and transient errors.
C35_Witness ==
  /\ BackupReturned
  /\ sqlite.restarts >= 1
  /\ sqlite.busy >= 1
  /\ sqlite.pages >= 2
  /\ sqlite.dest = "complete"
\* Caller c is running the materialization of _ensureDocumentIsPresent.
Materializer(c) ==
  /\ op[c] \in {"prepareLocalDoc", "getCopy"}
  /\ pc[c] \in {"ens_dir", "ens_local", "ens_trunk", "ens_copy", "ens_exists",
                "ens_backup", "ens_hash", "ens_remove", "fetch_exists",
                "fetch_trunk", "fetch_download"}

\* C36: ensure-present is single-flight per docId: at no time are two
\* materializations of one document in progress, so that concurrent
\* calls share one (one consultation of the directory, one download, one
\* presence result).
C36_SingleFlight ==
  \A d \in Docs :
    Cardinality({c \in Callers : Materializer(c) /\ cdoc[c] = d}) <= 1
\* The ensure-present of caller c fails in this step.
EnsureFails(c) ==
  /\ op[c] \in {"prepareLocalDoc", "getCopy"}
  /\ pc[c] # "ensure_await"
  /\ pc'[c] = "ensure_await"
  /\ awaited'[c] = "rejected"

\* Caller c calls _ensureDocumentIsPresent in this step.
EnsureCalled(c) ==
  /\ pc[c] \in {"idle", "flush_done"}
  /\ op'[c] \in {"prepareLocalDoc", "getCopy"}
  /\ pc'[c] \in {"ens_dir", "ensure_await"}

\* C37: a failed ensure-present leaves no entry for the document in the
\* presence cache (no entry ever holds a failure), and a later call for a
\* valid id on an open manager that finds no entry runs the
\* materialization again.
C37_FailureNotCached ==
  /\ [](\A d \in DocIds : localFiles[d] # "rejected")
  /\ [][\A c \in Callers :
          EnsureFails(c) => localFiles'[cdoc'[c]] = "none"]_vars
  /\ [][\A c \in Callers :
          (/\ EnsureCalled(c)
           /\ localFiles[cdoc'[c]] = "none"
           /\ ~closed
           /\ ~checkValidDocIdThrows(cdoc'[c]))
          => /\ pc'[c] = "ens_dir"
             /\ localFiles'[cdoc'[c]] = c]_vars

\* One getCopy failed in its own materialization and the next getCopy of
\* the same document ran its own and succeeded.
C37_Witness ==
  \E a, b \in Callers :
    /\ a # b
    /\ cdoc[a] = cdoc[b]
    /\ op[a] = "getCopy" /\ pc[a] = "returned" /\ result[a] = "error"
    /\ awaited[a] = "rejected" /\ locals[a].status # ""
    /\ op[b] = "getCopy" /\ pc[b] = "returned" /\ result[b] = "ok"
    /\ locals[b].status = "self"
    /\ localFiles[cdoc[a]] = "true"
\* Caller c takes a step of getCopy.
GetCopyStep(c) == op'[c] = "getCopy" /\ pc'[c] # pc[c]

\* C38 as stated: no step of getCopy changes a live file that is there.
C38_NeverModifiesLive ==
  [][\A c \in Callers :
       (GetCopyStep(c) /\ localFile[cdoc'[c]] # NoFile)
       => localFile'[cdoc'[c]] = localFile[cdoc'[c]]]_vars

\* C38: getCopy fails when ensure-present does not report the document
\* present; otherwise the copy it returns is a file of the call, with the
\* content of the live file.  Outside the materialization of its
\* ensure-present no step of getCopy touches the live file or its
\* sidecars, and no step of getCopy marks the document changed, schedules
\* an upload or starts a push.
C38_GetCopyFrame ==
  [][\A c \in Callers :
       GetCopyStep(c) =>
         /\ uploads' = uploads /\ marked' = marked /\ pushes' = pushes
         /\ ~Materializer(c) => fsVars' = fsVars
         /\ (pc[c] = "ensure_await" /\ awaited[c] # "true")
            => (pc'[c] = "returned" /\ result'[c] = "error")
         /\ (pc'[c] = "returned" /\ result'[c] = "ok")
            => /\ pc[c] = "copy_backup"
               /\ awaited[c] = "true"
               /\ localFile[cdoc[c]] # NoFile
               /\ locals'[c].copy = localFile[cdoc[c]]]_vars

\* A getCopy returned its copy of a document that is there.
C38_Witness ==
  \E c \in Callers :
    /\ op[c] = "getCopy" /\ pc[c] = "returned" /\ result[c] = "ok"
    /\ locals[c].copy # NoFile
    /\ locals[c].copy = localFile[cdoc[c]]
\* The prepareLocalDoc of caller c is inside its try block: from the
\* call of _ensureDocumentIsPresent to the finally clause.
Preparing(c) ==
  /\ op[c] = "prepareLocalDoc"
  /\ Materializer(c) \/ pc[c] = "ensure_await"

\* C39: a document is in _prepareFiles exactly while one prepareLocalDoc
\* of it is between the call of ensure-present and its own end; that call
\* removes it when it ends, with a result or with an error, and a call
\* rejected as ConcurrentPrepare leaves _prepareFiles as it is.
C39_PrepareFiles ==
  /\ [](\A d \in DocIds :
          /\ d \in prepareFiles <=> \E c \in Callers : Preparing(c) /\ cdoc[c] = d
          /\ Cardinality({c \in Callers : Preparing(c) /\ cdoc[c] = d}) <= 1)
  /\ [][\A c \in Callers :
          (Preparing(c) /\ pc'[c] = "returned")
          => /\ prepareFiles' = prepareFiles \ {cdoc[c]}
             /\ result'[c] \in {"true", "false", "error"}]_vars
  /\ [][\A c \in Callers :
          (/\ op[c] = "prepareLocalDoc"
           /\ pc[c] # "returned"
           /\ pc'[c] = "returned"
           /\ result'[c] = "ConcurrentPrepare")
          => /\ prepareFiles' = prepareFiles
             /\ cdoc[c] \in prepareFiles]_vars

\* A prepareLocalDoc was rejected as ConcurrentPrepare while the one in
\* progress is still in _prepareFiles.
C39_Witness ==
  \E a, b \in Callers :
    /\ a # b
    /\ cdoc[a] = cdoc[b]
    /\ Preparing(a)
    /\ op[b] = "prepareLocalDoc" /\ pc[b] = "returned"
    /\ result[b] = "ConcurrentPrepare"
    /\ cdoc[a] \in prepareFiles
\* C40: markAsChanged of a document that is not a snapshot replaces the
\* entry the document has in the presence cache by 'present' and creates
\* none when it has none, with remote storage enabled or disabled: an
\* entry comes into being only through a call of ensure-present, and a
\* getCopy that finds the entry 'present' is served from it without a
\* materialization.
C40_MarkRefreshesEntry ==
  [][\A d \in Docs :
       /\ MarkAsChanged(d)
          => /\ localFiles'[d] = IF localFiles[d] = "none" THEN "none" ELSE "true"
             /\ \A e \in DocIds \ {d} : localFiles'[e] = localFiles[e]
       /\ (localFiles[d] = "none" /\ localFiles'[d] # "none")
          => \E c \in Callers :
               EnsureCalled(c) /\ cdoc'[c] = d /\ localFiles'[d] = c
       /\ \A c \in Callers :
            (/\ EnsureCalled(c) /\ op'[c] = "getCopy" /\ cdoc'[c] = d
             /\ localFiles[d] = "true")
            => (pc'[c] = "ensure_await" /\ awaited'[c] = "true")]_vars

\* prepareLocalDoc reported the document new, markAsChanged made its
\* entry 'present', and a getCopy was served from the entry.
C40_Witness ==
  \E a, b \in Callers :
    /\ a # b
    /\ cdoc[a] = cdoc[b]
    /\ op[a] = "prepareLocalDoc" /\ pc[a] = "returned" /\ result[a] = "true"
    /\ awaited[a] = "false"
    /\ op[b] = "getCopy" /\ pc[b] = "copy_backup"
    /\ awaited[b] = "true" /\ locals[b].status = ""
    /\ localFiles[cdoc[a]] = "true"
====
